---- MODULE Spec2Model ----
(***************************************************************************)
(* A model of the Connecta personal assistant: the rule-based intent       *)
(* parser (src/src/ai/query_parser.py), the document store                 *)
(* (src/src/integrations/document_rag/document_manager.py) and the         *)
(* conversation histories kept by the dispatcher (src/src/assistant.py)    *)
(* and by the document integration (document_rag_integration.py).          *)
(*                                                                         *)
(* Texts are TLA+ strings; they are handled character by character with    *)
(* Len, SubSeq and \o, as the Python code handles str values.               *)
(***************************************************************************)
EXTENDS Integers, Sequences, FiniteSets, TLC

VARIABLES
    \* ---- intent parser (one parse() call per behaviour) ----
    query,          \* the raw text handed to QueryParser.parse
    now,            \* datetime.now().date() as a proleptic ordinal
    parsed,         \* what parse() produced: NotCalled, a raise, or an intent
    \* ---- document store (DocumentManager) ----
    documents_metadata, \* doc_id -> record (self.documents_metadata)
    stored_files,       \* names of the files present in storage_dir
    vectorstores,       \* doc_id -> persisted index (sequence of chunk texts)
    lastCall,           \* the last DocumentManager call: its arguments and outcome
    \* ---- conversation histories ----
    conversation_history,   \* PersonalAssistant.conversation_history
    current_context,        \* PersonalAssistant.current_context
    conversation_context,   \* DocumentRAGIntegration.conversation_context
    recorded,               \* every exchange recorded so far, per history
    \* ---- agentic workflow (AgenticRAGProcessor.process_query) ----
    wf,             \* the invocation in progress: node, messages, steps, events
    \* ---- dispatcher (PersonalAssistant.process_query) ----
    authenticated,  \* the integrations whose authenticate() succeeded
    dispatch,       \* the last process_query / handler call and what it did
    \* ---- adapter cache (BaseIntegration) ----
    cache,              \* key -> data (self._cache)
    cache_timestamps,   \* key -> time of the last _set_cache (self._cache_timestamps)
    clock,              \* datetime.now(), in seconds since construction
    cacheTrace          \* the cache calls made so far and the time that passed between them

parserVars == <<query, now, parsed>>
storeVars  == <<documents_metadata, stored_files, vectorstores, lastCall>>
chatVars   == <<conversation_history, current_context, conversation_context, recorded>>
workflowVars == <<wf>>
dispatchVars == <<authenticated, dispatch>>
cacheVars == <<cache, cache_timestamps, clock, cacheTrace>>
vars == <<query, now, parsed, documents_metadata, stored_files, vectorstores,
          lastCall, conversation_history, current_context, conversation_context,
          recorded, wf, authenticated, dispatch, cache, cache_timestamps, clock,
          cacheTrace>>

Range(s) == {s[i] : i \in 1..Len(s)}
Min(a, b) == IF a < b THEN a ELSE b

\* name = value, then the code that uses the name: the value is computed once
Bind(value, Body(_)) == CHOOSE result \in {Body(name) : name \in {value}} : TRUE
Max(a, b) == IF a > b THEN a ELSE b

(***************************************************************************)
(* Python str primitives.                                                  *)
(***************************************************************************)
Char(s, i) == SubSeq(s, i, i)

\* str.isspace for one character (the characters the inputs use)
IsSpace(c) == c \in {" ", "\n", "\t", "\r"}

UpperAlphabet == "ABCDEFGHIJKLMNOPQRSTUVWXYZ"
LowerAlphabet == "abcdefghijklmnopqrstuvwxyz"

LowerChar(c) ==
    IF \E i \in 1..26 : Char(UpperAlphabet, i) = c
    THEN Char(LowerAlphabet, CHOOSE i \in 1..26 : Char(UpperAlphabet, i) = c)
    ELSE c

\* str.lower(), character by character (the text is halved at each step)
RECURSIVE Lower(_)
Lower(s) ==
    Bind(s, LAMBDA t :
        IF t = "" THEN ""
        ELSE IF Len(t) = 1 THEN LowerChar(t)
        ELSE Lower(SubSeq(t, 1, Len(t) \div 2))
               \o Lower(SubSeq(t, Len(t) \div 2 + 1, Len(t))))

\* str.strip(): leading and trailing whitespace removed
Strip(s) ==
    Bind({i \in 1..Len(s) : ~IsSpace(Char(s, i))}, LAMBDA keep :
        IF keep = {} THEN ""
        ELSE SubSeq(s, CHOOSE i \in keep : \A j \in keep : i <= j,
                       CHOOSE i \in keep : \A j \in keep : i >= j))

\* len(s.split()): the number of maximal runs of non-whitespace
WordCount(s) ==
    Cardinality({i \in 1..Len(s) :
        /\ ~IsSpace(Char(s, i))
        /\ (i = 1 \/ IsSpace(Char(s, i - 1)))})

\* `sub in s`
Contains(s, sub) ==
    \E i \in 1..(Len(s) - Len(sub) + 1) : SubSeq(s, i, i + Len(sub) - 1) = sub

IsDigit(c) == c \in {"0", "1", "2", "3", "4", "5", "6", "7", "8", "9"}
DigitValue(c) == CHOOSE d \in 0..9 : Char("0123456789", d + 1) = c

\* int(s) for a non-empty string of decimal digits
RECURSIVE ToInt(_)
ToInt(s) == IF s = "" THEN 0
            ELSE 10 * ToInt(SubSeq(s, 1, Len(s) - 1)) + DigitValue(Char(s, Len(s)))

(***************************************************************************)
(* The regular expressions of the pattern tables.  A pattern is a sequence *)
(* of pieces: Lit(a) is (?:a1|a2|...) over literal alternatives, Dots is   *)
(* .* , Ws is \s+ , Cap is the group (.+), Num is the group (\d+), Ident  *)
(* is the group ([a-zA-Z0-9_-]+), ColonWs is [:\s]+ and Alt(b) is a group  *)
(* whose branches are                                                      *)
(* themselves piece sequences ((?:google\s+)? is                           *)
(* Alt(<< <<Lit(<<"google">>), Ws>>, <<>> >>)).  `.` matches every         *)
(* character but a newline.                                                *)
(***************************************************************************)
Lit(a) == [k |-> "lit", a |-> a]
Dots    == [k |-> "any"]
Ws     == [k |-> "ws"]
Cap    == [k |-> "cap"]
Num    == [k |-> "num"]
Ident  == [k |-> "ident"]
ColonWs == [k |-> "colonws"]
Alt(b) == [k |-> "alt", b |-> b]

\* (regular expression text, the same expression as pieces, action name)
P(src, re, action) == [src |-> src, re |-> re, action |-> action]

NoNewline(text, from, to) == \A i \in from..to : Char(text, i) # "\n"
AllSpace(text, from, to)  == \A i \in from..to : IsSpace(Char(text, i))
LitAt(text, pos, a) ==
    /\ pos + Len(a) - 1 <= Len(text)
    /\ SubSeq(text, pos, pos + Len(a) - 1) = a

Rest(ps, i) == SubSeq(ps, i + 1, Len(ps))

IsLetter(c) == \E i \in 1..26 : Char(LowerAlphabet, i) = c \/ Char(UpperAlphabet, i) = c
\* [a-zA-Z0-9_-]
IsIdentChar(c) == IsLetter(c) \/ IsDigit(c) \/ c \in {"_", "-"}
AllDigits(text, from, to) == \A i \in from..to : IsDigit(Char(text, i))
AllIdent(text, from, to)  == \A i \in from..to : IsIdentChar(Char(text, i))

\* the positions a repetition piece starting at pos can stop at
Stops(p, text, pos) ==
    CASE p.k = "any"   -> {q \in pos..(Len(text) + 1) : NoNewline(text, pos, q - 1)}
      [] p.k = "ws"    -> {q \in (pos + 1)..(Len(text) + 1) : AllSpace(text, pos, q - 1)}
      [] p.k = "cap"   -> {q \in (pos + 1)..(Len(text) + 1) : NoNewline(text, pos, q - 1)}
      [] p.k = "num"   -> {q \in (pos + 1)..(Len(text) + 1) : AllDigits(text, pos, q - 1)}
      [] p.k = "ident" -> {q \in (pos + 1)..(Len(text) + 1) : AllIdent(text, pos, q - 1)}
      [] p.k = "colonws" ->
             {q \in (pos + 1)..(Len(text) + 1) :
                 \A i \in pos..(q - 1) : Char(text, i) = ":" \/ IsSpace(Char(text, i))}

IsGroup(p) == p.k \in {"cap", "num", "ident"}

\* can pieces ps[i..] match text starting at position pos?
RECURSIVE MatchAt(_, _, _, _)
MatchAt(ps, i, text, pos) ==
    IF i > Len(ps) THEN TRUE
    ELSE LET p == ps[i] IN
      CASE p.k = "lit" ->
             \E j \in 1..Len(p.a) :
                 LitAt(text, pos, p.a[j]) /\ MatchAt(ps, i + 1, text, pos + Len(p.a[j]))
        [] p.k = "alt" ->
             \E j \in 1..Len(p.b) : MatchAt(p.b[j] \o Rest(ps, i), 1, text, pos)
        [] OTHER ->
             \E q \in Stops(p, text, pos) : MatchAt(ps, i + 1, text, q)

\* re.search(pattern, text) is not None
Search(re, text) == \E s \in 1..(Len(text) + 1) : MatchAt(re, 1, text, s)

\* The match the backtracking matcher returns for ps[i..] at pos: at every
\* piece the first choice, in the matcher's order of preference
\* (alternatives left to right, repetitions longest first), that lets the
\* rest of the pattern match.  end is the position after the match and g is
\* the text of group 1 ("" when the pattern has no group).
RECURSIVE RunAt(_, _, _, _)
RunAt(ps, i, text, pos) ==
    IF i > Len(ps) THEN [end |-> pos, g |-> ""]
    ELSE LET p == ps[i] IN
      CASE p.k = "lit" ->
             LET ok == {j \in 1..Len(p.a) :
                          LitAt(text, pos, p.a[j])
                          /\ MatchAt(ps, i + 1, text, pos + Len(p.a[j]))}
                 j  == CHOOSE m \in ok : \A n \in ok : m <= n
             IN  RunAt(ps, i + 1, text, pos + Len(p.a[j]))
        [] p.k = "alt" ->
             LET ok == {j \in 1..Len(p.b) : MatchAt(p.b[j] \o Rest(ps, i), 1, text, pos)}
                 j  == CHOOSE m \in ok : \A n \in ok : m <= n
             IN  RunAt(p.b[j] \o Rest(ps, i), 1, text, pos)
        [] OTHER ->
             LET ok == {q \in Stops(p, text, pos) : MatchAt(ps, i + 1, text, q)}
                 q  == CHOOSE m \in ok : \A n \in ok : n <= m
                 r  == RunAt(ps, i + 1, text, q)
             IN  IF IsGroup(p) THEN [end |-> r.end, g |-> SubSeq(text, pos, q - 1)]
                 ELSE r

\* match.groups() is non-empty
RECURSIVE HasGroup(_)
HasGroup(re) ==
    \E i \in 1..Len(re) :
        \/ IsGroup(re[i])
        \/ re[i].k = "alt" /\ \E j \in 1..Len(re[i].b) : HasGroup(re[i].b[j])

\* the match of re.search at or after position from: leftmost start first
SearchFrom(re, text, from) ==
    LET starts == {s \in from..(Len(text) + 1) : MatchAt(re, 1, text, s)}
        s0     == CHOOSE s \in starts : \A t \in starts : s <= t
    IN  [start |-> s0] @@ RunAt(re, 1, text, s0)

\* match.group(1) of re.search(pattern, text)
Group1(re, text) == SearchFrom(re, text, 1).g

\* re.findall for a pattern with one group: the group of every match, left
\* to right, each search resuming where the previous match ended
RECURSIVE FindAllFrom(_, _, _)
FindAllFrom(re, text, from) ==
    IF ~\E s \in from..(Len(text) + 1) : MatchAt(re, 1, text, s) THEN <<>>
    ELSE LET m == SearchFrom(re, text, from)
         IN  <<m.g>> \o FindAllFrom(re, text, IF m.end > m.start THEN m.end ELSE m.end + 1)

(***************************************************************************)
(* QueryParser: the pattern tables (query_parser.py, __init__).            *)
(***************************************************************************)
email_patterns ==
  <<
     P("(?:how many|count of|number of).*(?:unread|new).*(?:email|mail)",
       <<Lit(<<"how many", "count of", "number of">>), Dots, Lit(<<"unread", "new">>), Dots, Lit(<<"email", "mail">>)>>,
       "get_unread_count"),
     P("(?:summarize|summary of).*(?:email|mail).*from\\s+(.+)",
       <<Lit(<<"summarize", "summary of">>), Dots, Lit(<<"email", "mail">>), Dots, Lit(<<"from">>), Ws, Cap>>,
       "summarize_emails_from_sender"),
     P("(?:email|mail).*from\\s+(.+)",
       <<Lit(<<"email", "mail">>), Dots, Lit(<<"from">>), Ws, Cap>>,
       "get_emails_from_sender"),
     P("(?:recent|latest).*(?:email|mail)",
       <<Lit(<<"recent", "latest">>), Dots, Lit(<<"email", "mail">>)>>,
       "get_recent_emails"),
     P("(?:urgent|important).*(?:email|mail)",
       <<Lit(<<"urgent", "important">>), Dots, Lit(<<"email", "mail">>)>>,
       "get_urgent_emails"),
     P("(?:email|mail).*(?:about|regarding)\\s+(.+)",
       <<Lit(<<"email", "mail">>), Dots, Lit(<<"about", "regarding">>), Ws, Cap>>,
       "search_emails")
  >>

github_patterns ==
  <<
     P("(?:pull request|pr).*(?:review|to review)",
       <<Lit(<<"pull request", "pr">>), Dots, Lit(<<"review", "to review">>)>>,
       "get_prs_to_review"),
     P("(?:my|open).*(?:pull request|pr)",
       <<Lit(<<"my", "open">>), Dots, Lit(<<"pull request", "pr">>)>>,
       "get_my_prs"),
     P("(?:issue|issues).*(?:assigned|assigned to me)",
       <<Lit(<<"issue", "issues">>), Dots, Lit(<<"assigned", "assigned to me">>)>>,
       "get_assigned_issues"),
     P("(?:recent|latest).*commit",
       <<Lit(<<"recent", "latest">>), Dots, Lit(<<"commit">>)>>,
       "get_recent_commits"),
     P("(?:repository|repo).*(?:stat|statistic)",
       <<Lit(<<"repository", "repo">>), Dots, Lit(<<"stat", "statistic">>)>>,
       "get_repo_stats"),
     P("(?:github|git).*(?:summary|overview)",
       <<Lit(<<"github", "git">>), Dots, Lit(<<"summary", "overview">>)>>,
       "get_github_summary")
  >>

calendar_patterns ==
  <<
     P("(?:schedule|calendar).*(?:today|this day)",
       <<Lit(<<"schedule", "calendar">>), Dots, Lit(<<"today", "this day">>)>>,
       "get_today_schedule"),
     P("(?:schedule|calendar).*(?:tomorrow|next day)",
       <<Lit(<<"schedule", "calendar">>), Dots, Lit(<<"tomorrow", "next day">>)>>,
       "get_tomorrow_schedule"),
     P("(?:schedule|calendar).*(?:this week|week)",
       <<Lit(<<"schedule", "calendar">>), Dots, Lit(<<"this week", "week">>)>>,
       "get_week_schedule"),
     P("(?:next|upcoming).*(?:meeting|event)",
       <<Lit(<<"next", "upcoming">>), Dots, Lit(<<"meeting", "event">>)>>,
       "get_next_meeting"),
     P("(?:free time|available)",
       <<Lit(<<"free time", "available">>)>>,
       "get_free_time"),
     P("(?:busy|occupied).*(?:when|time)",
       <<Lit(<<"busy", "occupied">>), Dots, Lit(<<"when", "time">>)>>,
       "get_busy_times")
  >>

drive_patterns ==
  <<
     P("(?:search|find).*(?:and read|read).*(?:file|document).*(?:for|about)\\s+(.+)",
       <<Lit(<<"search", "find">>), Dots, Lit(<<"and read", "read">>), Dots, Lit(<<"file", "document">>), Dots, Lit(<<"for", "about">>), Ws, Cap>>,
       "search_and_read_files"),
     P("(?:read|open|show content).*(?:file|document)\\s+(.+)",
       <<Lit(<<"read", "open", "show content">>), Dots, Lit(<<"file", "document">>), Ws, Cap>>,
       "read_file_by_name"),
     P("(?:read|open|show content).*(?:file|document)",
       <<Lit(<<"read", "open", "show content">>), Dots, Lit(<<"file", "document">>)>>,
       "read_file_interactive"),
     P("(?:recent|latest).*(?:file|document)",
       <<Lit(<<"recent", "latest">>), Dots, Lit(<<"file", "document">>)>>,
       "get_recent_files"),
     P("(?:search|find).*(?:file|document).*(?:for|about)\\s+(.+)",
       <<Lit(<<"search", "find">>), Dots, Lit(<<"file", "document">>), Dots, Lit(<<"for", "about">>), Ws, Cap>>,
       "search_files"),
     P("(?:shared|share).*(?:file|document)",
       <<Lit(<<"shared", "share">>), Dots, Lit(<<"file", "document">>)>>,
       "get_shared_files"),
     P("(?:google\\s+)?(?:doc|document)",
       <<Alt(<<<<Lit(<<"google">>), Ws>>, <<>>>>), Lit(<<"doc", "document">>)>>,
       "get_documents"),
     P("(?:google\\s+)?(?:sheet|spreadsheet)",
       <<Alt(<<<<Lit(<<"google">>), Ws>>, <<>>>>), Lit(<<"sheet", "spreadsheet">>)>>,
       "get_spreadsheets"),
     P("(?:google\\s+)?(?:slide|presentation)",
       <<Alt(<<<<Lit(<<"google">>), Ws>>, <<>>>>), Lit(<<"slide", "presentation">>)>>,
       "get_presentations"),
     P("(?:folder|directory)",
       <<Lit(<<"folder", "directory">>)>>,
       "get_folders"),
     P("(?:pdf|pdf file)",
       <<Lit(<<"pdf", "pdf file">>)>>,
       "get_pdfs"),
     P("(?:image|picture|photo)",
       <<Lit(<<"image", "picture", "photo">>)>>,
       "get_images"),
     P("(?:storage|space).*(?:usage|used)",
       <<Lit(<<"storage", "space">>), Dots, Lit(<<"usage", "used">>)>>,
       "get_storage_usage"),
     P("(?:drive|google drive).*(?:file|document)",
       <<Lit(<<"drive", "google drive">>), Dots, Lit(<<"file", "document">>)>>,
       "get_recent_files")
  >>

document_rag_patterns ==
  <<
     P("(?:upload|add).*(?:document|file)\\s+(.+)",
       <<Lit(<<"upload", "add">>), Dots, Lit(<<"document", "file">>), Ws, Cap>>,
       "upload_document"),
     P("(?:list|show).*(?:document|uploaded).*(?:document|file)",
       <<Lit(<<"list", "show">>), Dots, Lit(<<"document", "uploaded">>), Dots, Lit(<<"document", "file">>)>>,
       "list_documents"),
     P("(?:delete|remove).*(?:document|file)\\s+(.+)",
       <<Lit(<<"delete", "remove">>), Dots, Lit(<<"document", "file">>), Ws, Cap>>,
       "delete_document"),
     P("(?:ask|question).*(?:about|regarding).*(?:document|file)",
       <<Lit(<<"ask", "question">>), Dots, Lit(<<"about", "regarding">>), Dots, Lit(<<"document", "file">>)>>,
       "agentic_query"),
     P("(?:search|find).*(?:in|within).*(?:document|file).*(?:for|about)\\s+(.+)",
       <<Lit(<<"search", "find">>), Dots, Lit(<<"in", "within">>), Dots, Lit(<<"document", "file">>), Dots, Lit(<<"for", "about">>), Ws, Cap>>,
       "search_documents"),
     P("(?:what|tell me).*(?:about|in).*(?:document|file)",
       <<Lit(<<"what", "tell me">>), Dots, Lit(<<"about", "in">>), Dots, Lit(<<"document", "file">>)>>,
       "agentic_query"),
     P("(?:summarize|summary).*(?:document|file)\\s+(.+)",
       <<Lit(<<"summarize", "summary">>), Dots, Lit(<<"document", "file">>), Ws, Cap>>,
       "summarize_document"),
     P("(?:analyze|analysis).*(?:document|file)\\s+(.+)",
       <<Lit(<<"analyze", "analysis">>), Dots, Lit(<<"document", "file">>), Ws, Cap>>,
       "analyze_document"),
     P("(?:compare|comparison).*(?:document|file)",
       <<Lit(<<"compare", "comparison">>), Dots, Lit(<<"document", "file">>)>>,
       "compare_documents"),
     P("(?:extract|get).*(?:information|data).*(?:from|in).*(?:document|file)",
       <<Lit(<<"extract", "get">>), Dots, Lit(<<"information", "data">>), Dots, Lit(<<"from", "in">>), Dots, Lit(<<"document", "file">>)>>,
       "extract_information"),
     P("(?:clear|reset).*(?:context|conversation)",
       <<Lit(<<"clear", "reset">>), Dots, Lit(<<"context", "conversation">>)>>,
       "clear_context"),
     P("(?:show|get).*context.*(?:info|information)",
       <<Lit(<<"show", "get">>), Dots, Lit(<<"context">>), Dots, Lit(<<"info", "information">>)>>,
       "context_info"),
     P("(?:what|show).*(?:context|conversation)",
       <<Lit(<<"what", "show">>), Dots, Lit(<<"context", "conversation">>)>>,
       "context_info"),
     P("(?:info|information|metadata).*(?:document|file)\\s+(.+)",
       <<Lit(<<"info", "information", "metadata">>), Dots, Lit(<<"document", "file">>), Ws, Cap>>,
       "get_document_metadata"),
     P("(?:storage|document).*(?:stat|statistic)",
       <<Lit(<<"storage", "document">>), Dots, Lit(<<"stat", "statistic">>)>>,
       "get_storage_stats"),
     P("(?:document|file).*(?:question|query|ask)",
       <<Lit(<<"document", "file">>), Dots, Lit(<<"question", "query", "ask">>)>>,
       "agentic_query")
  >>

general_patterns ==
  <<
     P("(?:daily|day).*(?:summary|overview)",
       <<Lit(<<"daily", "day">>), Dots, Lit(<<"summary", "overview">>)>>,
       "get_daily_summary"),
     P("(?:what.*focus|priority|priorities)",
       <<Alt(<<<<Lit(<<"what">>), Dots, Lit(<<"focus">>)>>, <<Lit(<<"priority">>)>>, <<Lit(<<"priorities">>)>>>>)>>,
       "get_priorities"),
     P("(?:status|overview).*(?:all|everything)",
       <<Lit(<<"status", "overview">>), Dots, Lit(<<"all", "everything">>)>>,
       "get_all_status"),
     P("(?:help|assist)",
       <<Lit(<<"help", "assist">>)>>,
       "get_help")
  >>

(***************************************************************************)
(* QueryParser._extract_time_parameters.  Dates are proleptic Gregorian    *)
(* ordinals (date.toordinal()); datetime arithmetic raises OverflowError   *)
(* when a timedelta exceeds MaxTimedeltaDays or a date leaves              *)
(* MinOrdinal..MaxOrdinal.                                                 *)
(***************************************************************************)
MinOrdinal == 1
MaxOrdinal == 3652059
MaxTimedeltaDays == 999999999

\* r'(?:last|past)\s+(\d+)\s+days?'
days_pattern == <<Lit(<<"last", "past">>), Ws, Num, Ws, Lit(<<"day">>),
                  Alt(<< <<Lit(<<"s">>)>>, <<>> >>)>>
\* r'(?:last|recent|latest)\s+(\d+)'
limit_pattern == <<Lit(<<"last", "recent", "latest">>), Ws, Num>>
\* r'(?:document|file|doc)\s+([a-zA-Z0-9_-]+)'
doc_id_pattern == <<Lit(<<"document", "file", "doc">>), Ws, Ident>>

DateOk(d) == d >= MinOrdinal /\ d <= MaxOrdinal
\* date.weekday(): Monday is 0
Weekday(d) == (d - 1) % 7

\* timedelta(days=n) can be built and today -/+ it is a date
ShiftOk(today, n) == n <= MaxTimedeltaDays /\ DateOk(today + n) /\ DateOk(today - n)

\* does _extract_time_parameters raise OverflowError on q?
TimeRaises(q, today) ==
    \/ ~Contains(q, "today") /\ Contains(q, "tomorrow") /\ ~DateOk(today + 1)
    \/ /\ ~Contains(q, "today") /\ ~Contains(q, "tomorrow")
       /\ Contains(q, "yesterday") /\ ~DateOk(today - 1)
    \/ Contains(q, "this week")
         /\ (~DateOk(today - Weekday(today)) \/ ~DateOk(today - Weekday(today) + 6))
    \/ ~Contains(q, "this week") /\ Contains(q, "last week")
         /\ (~DateOk(today - (Weekday(today) + 7)) \/ ~DateOk(today - (Weekday(today) + 7) + 6))
    \/ Search(days_pattern, q)
         /\ LET days == ToInt(Group1(days_pattern, q))
            IN  days > MaxTimedeltaDays \/ ~DateOk(today - days)

\* the parameters _extract_time_parameters returns when it does not raise
ExtractTimeParameters(q, today) ==
    LET day  == IF Contains(q, "today") THEN ("date" :> today)
                ELSE IF Contains(q, "tomorrow") THEN ("date" :> today + 1)
                ELSE IF Contains(q, "yesterday") THEN ("date" :> today - 1)
                ELSE <<>>
        sow  == today - Weekday(today)
        solw == today - (Weekday(today) + 7)
        week == IF Contains(q, "this week")
                THEN ("start_date" :> sow) @@ ("end_date" :> sow + 6)
                ELSE IF Contains(q, "last week")
                THEN ("start_date" :> solw) @@ ("end_date" :> solw + 6)
                ELSE <<>>
        span == IF Search(days_pattern, q)
                THEN LET days == ToInt(Group1(days_pattern, q))
                     IN  ("start_date" :> today - days) @@ ("end_date" :> today)
                ELSE <<>>
    IN  span @@ week @@ day

(***************************************************************************)
(* QueryParser._extract_parameters.  A dict is a function from its keys;   *)
(* d2 @@ d1 is d1.update(d2).                                              *)
(***************************************************************************)
\* str.strip(chars)
StripChars(s, cs) ==
    LET keep == {i \in 1..Len(s) : Char(s, i) \notin cs}
    IN  IF keep = {} THEN ""
        ELSE SubSeq(s, CHOOSE i \in keep : \A j \in keep : i <= j,
                       CHOOSE i \in keep : \A j \in keep : i >= j)

\* the first element of seq found in q, as the for/break loops pick it
FirstFound(seq, q) ==
    LET ok == {i \in 1..Len(seq) : Contains(q, seq[i])}
    IN  seq[CHOOSE i \in ok : \A j \in ok : i <= j]

info_types == <<"statistics", "dates", "names", "financial", "technical", "business">>
aspects == <<"methodology", "findings", "conclusions", "technical", "business", "results">>

DefaultLimit == 10

ExtractParameters(q, pat, today) ==
    LET action == pat.action
        groups == HasGroup(pat.re)
        g1     == Group1(pat.re, q)
        sender == IF (Contains(action, "from_sender")
                      \/ Contains(action, "summarize_emails_from_sender")) /\ groups
                  THEN ("sender" :> StripChars(Strip(g1), {"\"", "'"}))
                  ELSE <<>>
        term   == IF (Contains(action, "search")
                      \/ Contains(action, "search_and_read_files")) /\ groups
                  THEN ("search_term" :> Strip(g1))
                  ELSE <<>>
        fname  == IF Contains(action, "read_file_by_name") /\ groups
                  THEN ("file_name" :> Strip(g1))
                  ELSE <<>>
        rag    == IF action = "upload_document"
                  THEN IF groups THEN ("file_path" :> Strip(g1)) ELSE <<>>
                  ELSE IF action = "delete_document"
                  THEN IF groups THEN ("doc_id" :> Strip(g1)) ELSE <<>>
                  ELSE IF action \in {"summarize_document", "analyze_document",
                                      "get_document_metadata"}
                  THEN IF groups THEN ("doc_id" :> Strip(g1)) ELSE <<>>
                  ELSE IF action = "search_documents"
                  THEN IF groups THEN ("query" :> Strip(g1)) ELSE <<>>
                  ELSE IF action = "agentic_query"
                  THEN ("query" :> q)
                  ELSE IF action = "extract_information"
                  THEN (IF \E i \in 1..Len(info_types) : Contains(q, info_types[i])
                        THEN ("info_type" :> FirstFound(info_types, q)) ELSE <<>>)
                       @@
                       (IF Search(doc_id_pattern, q)
                        THEN ("doc_id" :> Group1(doc_id_pattern, q)) ELSE <<>>)
                  ELSE IF action = "compare_documents"
                  THEN (IF \E i \in 1..Len(aspects) : Contains(q, aspects[i])
                        THEN ("aspect" :> FirstFound(aspects, q)) ELSE <<>>)
                       @@
                       (IF Search(doc_id_pattern, q)
                        THEN ("doc_ids" :> FindAllFrom(doc_id_pattern, q, 1)) ELSE <<>>)
                  ELSE <<>>
        limit  == IF Search(limit_pattern, q)
                  THEN ("limit" :> ToInt(Group1(limit_pattern, q)))
                  ELSE IF Contains(action, "recent") \/ Contains(action, "get_")
                  THEN ("limit" :> DefaultLimit)
                  ELSE <<>>
    IN  limit @@ ExtractTimeParameters(q, today) @@ rag @@ fname @@ term @@ sender

(***************************************************************************)
(* QueryParser._calculate_confidence.  A confidence is the exact rational  *)
(* num/den of the value the float expression denotes.                      *)
(***************************************************************************)
exact_keywords == <<"email", "mail", "github", "pr", "pull request",
                    "calendar", "schedule", "meeting", "commit", "drive",
                    "file", "document", "folder">>

\* keyword_bonus, in tenths
KeywordBonus(q) ==
    LET query_lower == Lower(q)
    IN  Cardinality({i \in 1..Len(exact_keywords) :
                        Contains(query_lower, exact_keywords[i])})

\* min(0.5 + min(pw/max(qw,1), 1.0) * 0.3 + bonus, 1.0) with pw, qw the
\* word counts of the pattern text and of the query
CalculateConfidence_uncapped(q, pattern) ==
    LET pattern_words == WordCount(pattern)
        query_words   == Max(WordCount(q), 1)
    IN  [num |-> 5 * query_words + 3 * Min(pattern_words, query_words)
                   + KeywordBonus(q) * query_words,
         den |-> 10 * query_words]

CalculateConfidence(q, pattern) ==
    LET pattern_words == WordCount(pattern)
        query_words   == Max(WordCount(q), 1)
    IN  [num |-> Min(5 * query_words + 3 * Min(pattern_words, query_words)
                       + KeywordBonus(q) * query_words,
                     10 * query_words),
         den |-> 10 * query_words]

(***************************************************************************)
(* QueryParser._try_match_patterns and QueryParser.parse.                  *)
(***************************************************************************)
NoIntent == [status |-> "none"]
Raised(e) == [status |-> "raise", error |-> e]
Intent(service, action, parameters, confidence, original) ==
    [status |-> "ok", service |-> service, action |-> action,
     parameters |-> parameters, confidence |-> confidence,
     original_query |-> original]

TryMatchPatterns(q, patterns, service, today) ==
    LET ok == {i \in 1..Len(patterns) : Search(patterns[i].re, q)}
    IN  IF ok = {} THEN NoIntent
        ELSE LET pat == patterns[CHOOSE i \in ok : \A j \in ok : i <= j]
             IN  IF TimeRaises(q, today) THEN Raised("OverflowError")
                 ELSE Intent(service, pat.action, ExtractParameters(q, pat, today),
                             CalculateConfidence(q, pat.src), q)

DefaultIntent(raw) ==
    Intent("general", "general_query", ("query" :> raw), [num |-> 3, den |-> 10], raw)

\* the cascade of parse over a list of (patterns, service) pairs
RECURSIVE Cascade(_, _, _, _)
Cascade(domains, raw, q, today) ==
    IF domains = <<>> THEN DefaultIntent(raw)
    ELSE LET r == TryMatchPatterns(q, domains[1][1], domains[1][2], today)
         IN  IF r.status # "none" THEN r
             ELSE Cascade(Tail(domains), raw, q, today)

parse_driveFirst(raw, today) ==
    Cascade(<< <<email_patterns, "gmail">>, <<github_patterns, "github">>,
               <<calendar_patterns, "calendar">>, <<drive_patterns, "drive">>,
               <<document_rag_patterns, "document_rag">>,
               <<general_patterns, "general">> >>,
            raw, Strip(Lower(raw)), today)

parse(raw, today) ==
    Cascade(<< <<email_patterns, "gmail">>, <<github_patterns, "github">>,
               <<calendar_patterns, "calendar">>,
               <<document_rag_patterns, "document_rag">>,
               <<drive_patterns, "drive">>,
               <<general_patterns, "general">> >>,
            raw, Strip(Lower(raw)), today)

(***************************************************************************)
(* The inputs of the parser: up to MaxParts phrases joined by one space,   *)
(* and the wall clock read by datetime.now().                              *)
(***************************************************************************)
MaxParts == 2

Phrases == {"email about github PR commit", "pr to review", "schedule today",
            "summarize document abc123", "find file about x", "help", "hello",
            "last 9999999 days", "\n"}

RECURSIVE QueriesUpTo(_)
QueriesUpTo(n) ==
    IF n = 0 THEN {""}
    ELSE LET shorter == QueriesUpTo(n - 1)
         IN  shorter \cup Phrases
               \cup {a \o " " \o b : a \in Phrases, b \in shorter \ {""}}

Queries == QueriesUpTo(MaxParts)

\* 2000-01-01 and 2026-11-02
NowOrdinals == {730120, 739922}

FirstNow == CHOOSE t \in NowOrdinals : \A u \in NowOrdinals : t <= u

NotCalled == [status |-> "idle"]

(***************************************************************************)
(* DocumentManager (document_manager.py).                                  *)
(*                                                                         *)
(* pathlib: the name, suffix and stem of a path.                           *)
(***************************************************************************)
LastIndexOf(s, c) ==
    LET at == {i \in 1..Len(s) : Char(s, i) = c}
    IN  IF at = {} THEN 0 ELSE CHOOSE i \in at : \A j \in at : j <= i

\* Path(p).name
PathName(p) == SubSeq(p, LastIndexOf(p, "/") + 1, Len(p))

\* Path(p).suffix: from the last dot of the name, unless that dot is the
\* first or the last character of the name
PathSuffix(p) ==
    LET name == PathName(p)
        i    == LastIndexOf(name, ".")
    IN  IF 1 < i /\ i < Len(name) THEN SubSeq(name, i, Len(name)) ELSE ""

\* Path(p).stem
PathStem(p) ==
    LET name == PathName(p)
    IN  SubSeq(name, 1, Len(name) - Len(PathSuffix(p)))

SUPPORTED_FORMATS == {".pdf", ".docx", ".txt", ".md"}

\* max_file_size_mb * 1024 * 1024 with the default max_file_size_mb = 50
max_file_size == 50 * 1024 * 1024

storage_dir == "documents"

(***************************************************************************)
(* The sample corpus: the files a caller can name, with what the external  *)
(* collaborators make of them (the text extractor's output, the chunks the *)
(* text splitter cuts it into, the distance the embedding gives a chunk    *)
(* for a search query).  The two report texts are different texts whose    *)
(* SHA-256 digests begin with the same 8 hex characters.                   *)
(***************************************************************************)
TextReport    == "Quarterly report, revision 49994."
TextReportRev == "Quarterly report, revision 74773."
TextNotes     == "Meeting notes.\n\nAction items.\n\nOpen questions."
TextBlank     == " \n"
TextFaq       == "No relevant documents found? Try again."

SourceFiles ==
    { [path |-> "docs/report.txt",  exists |-> TRUE,  size |-> 33,       text |-> TextReport],
      [path |-> "docs/report.md",   exists |-> TRUE,  size |-> 33,       text |-> TextReport],
      [path |-> "inbox/report.txt", exists |-> TRUE,  size |-> 33,       text |-> TextReportRev],
      [path |-> "docs/notes.PDF",   exists |-> TRUE,  size |-> 4096,     text |-> TextNotes],
      [path |-> "docs/setup.exe",   exists |-> TRUE,  size |-> 2048,     text |-> ""],
      [path |-> "docs/scan.pdf",    exists |-> TRUE,  size |-> 52428801, text |-> TextNotes],
      [path |-> "docs/blank.txt",   exists |-> TRUE,  size |-> 2,        text |-> TextBlank],
      [path |-> "docs/missing.txt", exists |-> FALSE, size |-> 0,        text |-> ""] }

CustomNames == {"", "Q3 report"}

\* hashlib.sha256(content.encode()).hexdigest()[:8]
Sha256Prefix8(content) ==
    CASE content = TextReport    -> "96cff6b8"
      [] content = TextReportRev -> "96cff6b8"
      [] content = TextNotes     -> "dceeea3e"
      [] content = TextBlank     -> "e16f1596"
      [] content = TextFaq       -> "0735a15b"
      [] OTHER                   -> "e3b0c442"

\* text_splitter.split_documents: the chunks of a text
SplitText(content) ==
    CASE content = TextReport    -> <<"Quarterly report,", "revision 49994.">>
      [] content = TextReportRev -> <<"Quarterly report,", "revision 74773.">>
      [] content = TextNotes     -> <<"Meeting notes.", "Action items.", "Open questions.">>
      [] OTHER                   -> <<content>>

SearchQueries == {"main topics", "open items"}

\* the distance between the embeddings of a query and of a chunk
Distance(q, chunk) ==
    IF q = "main topics"
    THEN CASE chunk = "Quarterly report," -> 2
           [] chunk = "revision 49994."   -> 6
           [] chunk = "revision 74773."   -> 6
           [] chunk = "Meeting notes."    -> 1
           [] chunk = "Action items."     -> 6
           [] chunk = "Open questions."   -> 4
           [] OTHER                       -> 9
    ELSE CASE chunk = "Quarterly report," -> 7
           [] chunk = "revision 49994."   -> 8
           [] chunk = "revision 74773."   -> 8
           [] chunk = "Meeting notes."    -> 5
           [] chunk = "Action items."     -> 1
           [] chunk = "Open questions."   -> 1
           [] OTHER                       -> 9

(***************************************************************************)
(* documents_metadata is a dict: a sequence of records with distinct       *)
(* doc_id, in insertion order.                                             *)
(***************************************************************************)
Keys(md) == [i \in 1..Len(md) |-> md[i].doc_id]
HasDoc(md, id) == \E i \in 1..Len(md) : md[i].doc_id = id
DocOf(md, id) == md[CHOOSE i \in 1..Len(md) : md[i].doc_id = id]
Without(md, id) ==
    LET RECURSIVE Drop(_)
        Drop(s) == IF s = <<>> THEN <<>>
                   ELSE IF Head(s).doc_id = id THEN Drop(Tail(s))
                   ELSE <<Head(s)>> \o Drop(Tail(s))
    IN  Drop(md)

NoRecord == [doc_id |-> ""]

\* DocumentManager.get_document
get_document(id) ==
    IF HasDoc(documents_metadata, id) THEN DocOf(documents_metadata, id) ELSE NoRecord

\* DocumentManager.list_documents
list_documents == documents_metadata

\* DocumentManager._generate_doc_id
GenerateDocId(filename, content) ==
    PathStem(filename) \o "_" \o Sha256Prefix8(content)

VectorstorePath(doc_id) == storage_dir \o "/" \o doc_id \o "_vectorstore"

RemoveKey(f, key) == [p \in DOMAIN f \ {key} |-> f[p]]
NoVectorstores == [p \in {} |-> <<>>]

(***************************************************************************)
(* DocumentManager.upload_document.  fault names the step of the call that *)
(* the environment makes fail: "extract" (the text extractor raises) or    *)
(* "index" (building or saving the index raises, after the file copy).     *)
(* The result gives the call's outcome and the store it leaves.            *)
(***************************************************************************)
UploadFaults == {"none", "extract", "index"}

Left(outcome, result, md, files, stores) ==
    [outcome |-> outcome, result |-> result, md |-> md, files |-> files,
     stores |-> stores]

Unchanged(outcome, result) ==
    Left(outcome, result, documents_metadata, stored_files, vectorstores)

\* a plausible slip: the record counts the characters, not the chunks
DocMetadata_charCount(f, custom_name, doc_id) ==
    [doc_id |-> doc_id,
     original_filename |-> PathName(f.path),
     custom_name |-> IF custom_name # "" THEN custom_name ELSE PathStem(f.path),
     stored_filename |-> doc_id \o PathSuffix(f.path),
     file_type |-> Lower(PathSuffix(f.path)),
     file_size |-> f.size,
     num_chunks |-> Len(f.text),
     total_characters |-> Len(f.text),
     vectorstore_path |-> VectorstorePath(doc_id)]

DocMetadata(f, custom_name, doc_id) ==
    [doc_id |-> doc_id,
     original_filename |-> PathName(f.path),
     custom_name |-> IF custom_name # "" THEN custom_name ELSE PathStem(f.path),
     stored_filename |-> doc_id \o PathSuffix(f.path),
     file_type |-> Lower(PathSuffix(f.path)),
     file_size |-> f.size,
     num_chunks |-> Len(SplitText(f.text)),
     total_characters |-> Len(f.text),
     vectorstore_path |-> VectorstorePath(doc_id)]

\* a plausible slip: the duplicate check is missing, so a second upload
\* rebuilds the document and replaces its record
upload_document_noDuplicateCheck(f, custom_name, fault) ==
    IF ~f.exists THEN Unchanged("FileNotFoundError", NoRecord)
    ELSE IF Lower(PathSuffix(f.path)) \notin SUPPORTED_FORMATS
    THEN Unchanged("UnsupportedFormat", NoRecord)
    ELSE IF f.size > max_file_size THEN Unchanged("FileTooLarge", NoRecord)
    ELSE IF fault = "extract" THEN Unchanged("ExtractionError", NoRecord)
    ELSE IF Strip(f.text) = "" THEN Unchanged("EmptyDocument", NoRecord)
    ELSE LET doc_id == GenerateDocId(PathName(f.path), f.text)
             meta   == DocMetadata(f, custom_name, doc_id)
             files  == stored_files \cup {meta.stored_filename}
         IN  IF fault = "index"
             THEN Left("IndexBuildError", NoRecord, documents_metadata, files, vectorstores)
             ELSE Left("ok", meta,
                       Append(Without(documents_metadata, doc_id), meta), files,
                       (meta.vectorstore_path :> SplitText(f.text)) @@ vectorstores)

\* a plausible slip: the file is copied into storage before it is validated
upload_document_copyFirst(f, custom_name, fault) ==
    IF ~f.exists THEN Unchanged("FileNotFoundError", NoRecord)
    ELSE LET doc_id == GenerateDocId(PathName(f.path), f.text)
             meta   == DocMetadata(f, custom_name, doc_id)
             files  == stored_files \cup {meta.stored_filename}
             Kept(outcome) == Left(outcome, NoRecord, documents_metadata, files, vectorstores)
         IN  IF Lower(PathSuffix(f.path)) \notin SUPPORTED_FORMATS
             THEN Kept("UnsupportedFormat")
             ELSE IF f.size > max_file_size THEN Kept("FileTooLarge")
             ELSE IF fault = "extract" THEN Kept("ExtractionError")
             ELSE IF Strip(f.text) = "" THEN Kept("EmptyDocument")
             ELSE IF HasDoc(documents_metadata, doc_id)
             THEN Unchanged("ok", DocOf(documents_metadata, doc_id))
             ELSE IF fault = "index" THEN Kept("IndexBuildError")
             ELSE Left("ok", meta, Append(documents_metadata, meta), files,
                       (meta.vectorstore_path :> SplitText(f.text)) @@ vectorstores)

upload_document(f, custom_name, fault) ==
    IF ~f.exists THEN Unchanged("FileNotFoundError", NoRecord)
    ELSE IF Lower(PathSuffix(f.path)) \notin SUPPORTED_FORMATS
    THEN Unchanged("UnsupportedFormat", NoRecord)
    ELSE IF f.size > max_file_size THEN Unchanged("FileTooLarge", NoRecord)
    ELSE IF fault = "extract" THEN Unchanged("ExtractionError", NoRecord)
    ELSE IF Strip(f.text) = "" THEN Unchanged("EmptyDocument", NoRecord)
    ELSE LET doc_id == GenerateDocId(PathName(f.path), f.text)
             meta   == DocMetadata(f, custom_name, doc_id)
             files  == stored_files \cup {meta.stored_filename}
         IN  IF HasDoc(documents_metadata, doc_id)
             THEN Unchanged("ok", DocOf(documents_metadata, doc_id))
             ELSE IF fault = "index"
             THEN Left("IndexBuildError", NoRecord, documents_metadata, files, vectorstores)
             ELSE Left("ok", meta, Append(documents_metadata, meta), files,
                       (meta.vectorstore_path :> SplitText(f.text)) @@ vectorstores)

(***************************************************************************)
(* DocumentManager.delete_document.  fault names the physical removal the  *)
(* environment makes raise, if the call reaches it: "unlink" (the stored   *)
(* file) or "rmtree" (the index directory).                                *)
(***************************************************************************)
DeleteFaults == {"none", "unlink", "rmtree"}

Deleted(result, raised, md, files, stores) ==
    [result |-> result, raised |-> raised, md |-> md, files |-> files,
     stores |-> stores]

\* a plausible slip: the record is dropped before the physical removals
delete_document_recordFirst(doc_id, fault) ==
    IF ~HasDoc(documents_metadata, doc_id)
    THEN Deleted(FALSE, FALSE, documents_metadata, stored_files, vectorstores)
    ELSE LET meta == DocOf(documents_metadata, doc_id)
             md   == Without(documents_metadata, doc_id)
         IN  IF meta.stored_filename \in stored_files /\ fault = "unlink"
             THEN Deleted(FALSE, TRUE, md, stored_files, vectorstores)
             ELSE LET files == stored_files \ {meta.stored_filename}
                  IN  IF meta.vectorstore_path \in DOMAIN vectorstores /\ fault = "rmtree"
                      THEN Deleted(FALSE, TRUE, md, files, vectorstores)
                      ELSE Deleted(TRUE, FALSE, md, files,
                                   RemoveKey(vectorstores, meta.vectorstore_path))

\* a plausible slip: the unknown-id check reports success
delete_document_unknownTrue(doc_id, fault) ==
    IF ~HasDoc(documents_metadata, doc_id)
    THEN Deleted(TRUE, FALSE, documents_metadata, stored_files, vectorstores)
    ELSE LET meta == DocOf(documents_metadata, doc_id)
         IN  IF meta.stored_filename \in stored_files /\ fault = "unlink"
             THEN Deleted(FALSE, TRUE, documents_metadata, stored_files, vectorstores)
             ELSE LET files == stored_files \ {meta.stored_filename}
                  IN  IF meta.vectorstore_path \in DOMAIN vectorstores /\ fault = "rmtree"
                      THEN Deleted(FALSE, TRUE, documents_metadata, files, vectorstores)
                      ELSE Deleted(TRUE, FALSE, Without(documents_metadata, doc_id), files,
                                   RemoveKey(vectorstores, meta.vectorstore_path))

delete_document(doc_id, fault) ==
    IF ~HasDoc(documents_metadata, doc_id)
    THEN Deleted(FALSE, FALSE, documents_metadata, stored_files, vectorstores)
    ELSE LET meta == DocOf(documents_metadata, doc_id)
         IN  IF meta.stored_filename \in stored_files /\ fault = "unlink"
             THEN Deleted(FALSE, TRUE, documents_metadata, stored_files, vectorstores)
             ELSE LET files == stored_files \ {meta.stored_filename}
                  IN  IF meta.vectorstore_path \in DOMAIN vectorstores /\ fault = "rmtree"
                      THEN Deleted(FALSE, TRUE, documents_metadata, files, vectorstores)
                      ELSE Deleted(TRUE, FALSE, Without(documents_metadata, doc_id), files,
                                   RemoveKey(vectorstores, meta.vectorstore_path))

(***************************************************************************)
(* DocumentManager.get_vectorstore and DocumentManager.search_documents.   *)
(* broken is the set of doc_ids whose index the environment fails to load  *)
(* or to query during the call.                                            *)
(***************************************************************************)
\* list.sort(key=score): a stable insertion sort, ascending
RECURSIVE SortByScore(_)
SortByScore(s) ==
    Bind(s, LAMBDA t :
        IF t = <<>> THEN <<>>
        ELSE Bind(SortByScore(SubSeq(t, 1, Len(t) - 1)), LAMBDA rest :
                 LET x == t[Len(t)]
                     n == Cardinality({i \in 1..Len(rest) :
                                         rest[i].similarity_score <= x.similarity_score})
                 IN  SubSeq(rest, 1, n) \o <<x>> \o SubSeq(rest, n + 1, Len(rest))))

\* s[:k] for k >= 0
Take(s, k) == Bind(s, LAMBDA t : SubSeq(t, 1, Min(k, Len(t))))

\* get_vectorstore(doc_id) is not None
VectorstoreLoads(doc_id, broken) ==
    /\ HasDoc(documents_metadata, doc_id)
    /\ DocOf(documents_metadata, doc_id).vectorstore_path \in DOMAIN vectorstores
    /\ doc_id \notin broken

\* vectorstore.similarity_search_with_score(query, k=k) turned into result
\* entries: the k nearest chunks of the document, nearest first
DocResults(doc_id, q, k) ==
    Bind(DocOf(documents_metadata, doc_id), LAMBDA meta :
        LET chunks == vectorstores[meta.vectorstore_path]
            hits   == [i \in 1..Len(chunks) |->
                         [doc_id |-> doc_id, content |-> chunks[i],
                          similarity_score |-> Distance(q, chunks[i]),
                          document_name |-> meta.custom_name]]
        IN  Take(SortByScore(hits), k))

\* a plausible slip: an index that does not load ends the loop
RECURSIVE Gather_stopAtBroken(_, _, _, _)
Gather_stopAtBroken(target_docs, q, k, broken) ==
    Bind(target_docs, LAMBDA docs :
        IF docs = <<>> THEN <<>>
        ELSE IF ~VectorstoreLoads(Head(docs), broken) THEN <<>>
        ELSE DocResults(Head(docs), q, k) \o Gather_stopAtBroken(Tail(docs), q, k, broken))

\* the loop over target_docs
RECURSIVE Gather(_, _, _, _)
Gather(target_docs, q, k, broken) ==
    Bind(target_docs, LAMBDA docs :
        IF docs = <<>> THEN <<>>
        ELSE (IF VectorstoreLoads(Head(docs), broken)
              THEN DocResults(Head(docs), q, k) ELSE <<>>)
             \o Gather(Tail(docs), q, k, broken))

\* doc_ids or list(self.documents_metadata.keys()); doc_ids is None when
\* given is FALSE
TargetDocs(given, doc_ids) ==
    IF given /\ doc_ids # <<>> THEN doc_ids ELSE Keys(documents_metadata)

\* a plausible slip: the merged results are cut to k without sorting
search_documents_unsorted(q, given, doc_ids, k, broken) ==
    Take(Gather(TargetDocs(given, doc_ids), q, k, broken), k)

search_documents(q, given, doc_ids, k, broken) ==
    Take(SortByScore(Gather(TargetDocs(given, doc_ids), q, k, broken)), k)

(***************************************************************************)
(* The caller of the store: one call at a time; lastCall holds the call    *)
(* and what it returned until the caller takes the result.                 *)
(***************************************************************************)
MaxK == 2
MaxIds == 1

Idle == [op |-> "none"]

\* the doc_ids callers name: those of the corpus and one no upload yields
DocIdInputs == {"report_96cff6b8", "notes_dceeea3e", "ghost_00000000"}
BrokenInputs == {{}, {"report_96cff6b8"}, {"notes_dceeea3e"}}

RECURSIVE SeqsUpTo(_, _)
SeqsUpTo(S, n) ==
    IF n = 0 THEN {<<>>}
    ELSE LET shorter == SeqsUpTo(S, n - 1)
         IN  shorter \cup {Append(s, x) : s \in shorter, x \in S}

(***************************************************************************)
(* The conversation histories: PersonalAssistant._update_conversation_-    *)
(* context (assistant.py) and DocumentRAGIntegration._update_conversation_-*)
(* context and clear_conversation_context (document_rag_integration.py).   *)
(* None is the empty string: the code only tests these values for truth.   *)
(***************************************************************************)
MaxHistory == 5
ExcerptLength == 200

\* response[:200] + "..." if len(response) > 200 else response
Excerpt(response) ==
    IF Len(response) > ExcerptLength
    THEN SubSeq(response, 1, ExcerptLength) \o "..."
    ELSE response

\* s[-n:]
LastN(s, n) == IF Len(s) > n THEN SubSeq(s, Len(s) - n + 1, Len(s)) ELSE s

\* a plausible slip: the slice keeps the oldest entries, s[:n]
KeepLast_oldest(s, n) == IF Len(s) > n THEN SubSeq(s, 1, n) ELSE s

\* "if len(history) > 5: history = history[-5:]"
KeepLast(s, n) == IF Len(s) > n THEN LastN(s, n) ELSE s

AssistantEntry(q, intent, response) ==
    [query |-> q, intent |-> intent, response |-> Excerpt(response)]

DocumentEntry(q, response) ==
    [query |-> q, response |-> Excerpt(response)]

\* r'(?:ID[:\s]+|doc_id[:\s]+)([a-zA-Z0-9_-]+)'
response_doc_id_pattern ==
    <<Alt(<< <<Lit(<<"ID">>), ColonWs>>, <<Lit(<<"doc_id">>), ColonWs>> >>), Ident>>

EmptyContext ==
    [last_discussed_doc_id |-> "", last_discussed_doc_name |-> "",
     recent_search_results |-> <<>>, conversation_history |-> <<>>]

\* the document the response names, when the store knows it ("" otherwise)
ResponseDocId(response) ==
    IF (Contains(response, "Document ID") \/ Contains(Lower(response), "doc_id"))
       /\ Search(response_doc_id_pattern, response)
       /\ HasDoc(documents_metadata, Group1(response_doc_id_pattern, response))
    THEN Group1(response_doc_id_pattern, response)
    ELSE ""

(***************************************************************************)
(* The exchanges recorded: sample queries with the intent the dispatcher   *)
(* settled on, and sample responses, one of them longer than an excerpt.   *)
(***************************************************************************)
MaxExchanges == 6

RECURSIVE Repeat(_, _)
Repeat(s, n) == IF n = 0 THEN "" ELSE s \o Repeat(s, n - 1)

LongResponse == Repeat("The report covers revenue. ", 8)

AssistantExchanges ==
    { [query |-> "recent emails", service |-> "gmail",
       action |-> "get_recent_emails", response |-> "No results."],
      [query |-> "what about that?", service |-> "document_rag",
       action |-> "agentic_query", response |-> LongResponse] }

DocumentExchanges ==
    { [query |-> "what about that?", response |-> LongResponse],
      [query |-> "which document is it?",
       response |-> "Document ID: report_96cff6b8 is the report."] }

(***************************************************************************)
(* The agentic workflow: AgenticRAGProcessor (agentic_rag.py).  The graph  *)
(* built by _build_workflow has the nodes query_or_respond, tools,         *)
(* rewrite_query and generate_answer; its messages channel is a plain      *)
(* list, so what a node returns under "messages" replaces the list.  The   *)
(* text-generation client (LMStudioClient.generate_response) turns every   *)
(* failure into a reply text and never raises, so a generation call is an  *)
(* arbitrary reply drawn from the environment.                             *)
(***************************************************************************)
\* str.find: the 1-based place of the first occurrence of sub in s, 0 if none
Find(s, sub) ==
    LET places == {i \in 1..(Len(s) - Len(sub) + 1) :
                      SubSeq(s, i, i + Len(sub) - 1) = sub}
    IN  IF places = {} THEN 0 ELSE CHOOSE i \in places : \A j \in places : i <= j

StartsWith(s, prefix) ==
    Len(s) >= Len(prefix) /\ SubSeq(s, 1, Len(prefix)) = prefix

ContainsAny(s, words) == \E i \in 1..Len(words) : Contains(s, words[i])

\* str(n) for a natural number
RECURSIVE NatText(_)
NatText(n) ==
    IF n < 10 THEN SubSeq("0123456789", n + 1, n + 1)
    ELSE NatText(n \div 10) \o SubSeq("0123456789", (n % 10) + 1, (n % 10) + 1)

\* messages: HumanMessage, SystemMessage, AIMessage (with or without a tool
\* call) and the ToolMessage the tool node makes of a tool's output
HumanMessage(c)  == [type |-> "human",  content |-> c, name |-> "", call |-> "", arg |-> ""]
SystemMessage(c) == [type |-> "system", content |-> c, name |-> "", call |-> "", arg |-> ""]
AIMessage(c)     == [type |-> "ai",     content |-> c, name |-> "", call |-> "", arg |-> ""]
ToolCall(tool, q) == [type |-> "ai",    content |-> "", name |-> "", call |-> tool, arg |-> q]
ToolMessage(tool, c) == [type |-> "tool", content |-> c, name |-> tool, call |-> "", arg |-> ""]

\* the search_documents tool: doc_ids is None, k is 5
ToolK == 5
ChunkPreview == 300

RECURSIVE FormatChunks(_, _)
FormatChunks(results, i) ==
    IF i > Len(results) THEN ""
    ELSE "**Chunk " \o NatText(i) \o " from '" \o results[i].document_name \o "':**\n"
         \o SubSeq(results[i].content, 1, Min(ChunkPreview, Len(results[i].content)))
         \o "...\n"
         \o "Similarity Score: " \o NatText(results[i].similarity_score) \o ".000\n\n"
         \o FormatChunks(results, i + 1)

search_documents_tool(q, broken) ==
    Bind(search_documents(q, FALSE, <<>>, ToolK, broken), LAMBDA results :
        IF results = <<>> THEN "No relevant documents found."
        ELSE "Found " \o NatText(Len(results)) \o " relevant document chunks:\n\n"
             \o FormatChunks(results, 1))

\* the list_available_documents tool (the upload date is not modelled)
RECURSIVE FormatDocuments(_, _)
FormatDocuments(docs, i) ==
    IF i > Len(docs) THEN ""
    ELSE "* **" \o docs[i].custom_name \o "** (ID: " \o docs[i].doc_id \o ")\n"
         \o "  - File: " \o docs[i].original_filename \o "\n"
         \o "  - Type: " \o docs[i].file_type \o "\n"
         \o "  - Size: " \o NatText(docs[i].file_size) \o " bytes\n\n"
         \o FormatDocuments(docs, i + 1)

list_available_documents ==
    IF list_documents = <<>> THEN "No documents have been uploaded yet."
    ELSE "Available documents:\n\n" \o FormatDocuments(list_documents, 1)

\* the content of the first HumanMessage, "" when there is none
RECURSIVE FirstHuman(_)
FirstHuman(messages) ==
    IF messages = <<>> THEN ""
    ELSE IF Head(messages).type = "human" THEN Head(messages).content
    ELSE FirstHuman(Tail(messages))

listing_keywords == <<"list", "show", "documents">>
search_keywords  == <<"search", "find", "about", "what">>

\* a plausible slip: the search keywords are tested before the listing ones
Route_searchFirst(user_query) ==
    IF ContainsAny(user_query, search_keywords) THEN "search_documents"
    ELSE IF ContainsAny(user_query, listing_keywords) THEN "list_available_documents"
    ELSE "direct"

\* where query_or_respond sends the query: the tool it calls, or "direct"
Route(user_query) ==
    IF ContainsAny(user_query, listing_keywords) THEN "list_available_documents"
    ELSE IF ContainsAny(user_query, search_keywords) THEN "search_documents"
    ELSE "direct"

\* node query_or_respond; reply is what the generation call returns
query_or_respond(messages, reply) ==
    Bind(Lower(FirstHuman(messages)), LAMBDA user_query :
        IF Route(user_query) = "list_available_documents"
        THEN <<ToolCall("list_available_documents", "")>>
        ELSE IF Route(user_query) = "search_documents"
        THEN <<ToolCall("search_documents", user_query)>>
        ELSE <<AIMessage(reply)>>)

\* tools_condition: the edge out of query_or_respond
tools_condition(messages) ==
    IF messages # <<>> /\ messages[Len(messages)].call # "" THEN "tools" ELSE "END"

\* node tools: ToolNode runs the tool the last message calls
ToolNode(messages, broken) ==
    LET last == messages[Len(messages)]
    IN  IF last.call = "list_available_documents"
        THEN <<ToolMessage(last.call, list_available_documents)>>
        ELSE <<ToolMessage(last.call, search_documents_tool(last.arg, broken))>>

\* the last message named search_documents, NoMessage when there is none
NoMessage == [type |-> "none"]

RECURSIVE LastSearchMessage(_)
LastSearchMessage(messages) ==
    IF messages = <<>> THEN NoMessage
    ELSE IF messages[Len(messages)].name = "search_documents"
    THEN messages[Len(messages)]
    ELSE LastSearchMessage(SubSeq(messages, 1, Len(messages) - 1))

\* grade_documents: the edge out of tools
grade_documents(messages) ==
    IF messages = <<>> THEN "rewrite_query"
    ELSE Bind(LastSearchMessage(messages), LAMBDA m :
             IF m = NoMessage \/ Contains(m.content, "No relevant documents found")
             THEN "rewrite_query"
             ELSE IF Contains(m.content, "Found") /\ Contains(m.content, "relevant")
             THEN "generate_answer"
             ELSE "rewrite_query")

\* what a node puts in its generation prompt: the question, and for
\* generate_answer the retrieved content
NoPrompt == [node |-> "", question |-> "", context |-> ""]

RewritePrompt(messages) ==
    [node |-> "rewrite_query", question |-> FirstHuman(messages), context |-> ""]

AnswerPrompt(messages) ==
    [node |-> "generate_answer", question |-> FirstHuman(messages),
     context |-> IF LastSearchMessage(messages) = NoMessage THEN ""
                 ELSE LastSearchMessage(messages).content]

\* node rewrite_query
rewrite_query(messages, reply) == <<ToolCall("search_documents", Strip(reply))>>

\* node generate_answer
generate_answer(messages, reply) == <<AIMessage(reply)>>

\* what one tools step did, for the record of events
ToolEvent(called, output) ==
    IF called.call = "list_available_documents" THEN "list"
    ELSE IF output[1].content = "No relevant documents found." THEN "search_empty"
    ELSE "search_hit"

\* graph.invoke stops with GraphRecursionError once the graph has run
\* recursion_limit steps (the library's default) without reaching END
RecursionLimit == 25

\* a plausible slip: nothing limits the number of steps
StepsLeft_unlimited(w) == TRUE

StepsLeft(w) == w.steps < RecursionLimit

\* one step of the graph: the node w.node runs and the edge out of it is taken
WorkflowStep(w, reply, broken) ==
    CASE w.node = "query_or_respond" ->
           Bind(query_or_respond(w.messages, reply), LAMBDA ms :
               [w EXCEPT !.messages = ms, !.node = tools_condition(ms), !.steps = @ + 1,
                         !.events = Append(@, IF ms[1].call = "" THEN "direct" ELSE "route")])
      [] w.node = "tools" ->
           Bind(ToolNode(w.messages, broken), LAMBDA ms :
               [w EXCEPT !.messages = ms, !.node = grade_documents(ms), !.steps = @ + 1,
                         !.events = Append(@, ToolEvent(w.messages[Len(w.messages)], ms))])
      [] w.node = "rewrite_query" ->
           [w EXCEPT !.messages = rewrite_query(w.messages, reply), !.node = "tools",
                     !.steps = @ + 1, !.events = Append(@, "rewrite"),
                     !.prompt = RewritePrompt(w.messages)]
      [] w.node = "generate_answer" ->
           [w EXCEPT !.messages = generate_answer(w.messages, reply), !.node = "END",
                     !.steps = @ + 1, !.events = Append(@, "generate"),
                     !.prompt = AnswerPrompt(w.messages)]

\* AgenticRAGProcessor.process_query: the annotation, the initial state, the
\* result taken from the final state, the text made of an exception
ContextEnd(q) == IF StartsWith(q, "[Context:") THEN Find(q, "]") ELSE 0

ActualQuery(q) ==
    IF ContextEnd(q) # 0 THEN Strip(SubSeq(q, ContextEnd(q) + 1, Len(q))) ELSE q

ContextInfo(q) ==
    IF ContextEnd(q) # 0 THEN SubSeq(q, 2, ContextEnd(q) - 1) ELSE ""

InitialState(q) ==
    [node |-> "query_or_respond",
     messages |-> IF ContextInfo(q) # ""
                  THEN <<SystemMessage("Additional context: " \o ContextInfo(q)),
                         HumanMessage(ActualQuery(q))>>
                  ELSE <<HumanMessage(ActualQuery(q))>>,
     query |-> ActualQuery(q), steps |-> 0, events |-> <<>>, result |-> "",
     prompt |-> NoPrompt, failed |-> FALSE]

FinalResponse(messages) ==
    IF messages # <<>> /\ messages[Len(messages)].type = "ai"
    THEN messages[Len(messages)].content
    ELSE "I couldn't process your query. Please try again."

RecursionErrorText ==
    "I encountered an error while processing your query: Recursion limit of "
    \o NatText(RecursionLimit) \o " reached without hitting a stop condition."

Returned(w, text) == [w EXCEPT !.node = "returned", !.result = text]

\* the whole invocation, with one reply and one set of broken indexes for
\* all its steps
RECURSIVE RunToEnd(_, _, _)
RunToEnd(w, reply, broken) ==
    IF w.node = "END" THEN Returned(w, FinalResponse(w.messages))
    ELSE IF ~StepsLeft(w) THEN Returned(w, RecursionErrorText)
    ELSE Bind(WorkflowStep(w, reply, broken), LAMBDA next : RunToEnd(next, reply, broken))

AgenticProcessQuery(q, reply, broken) == RunToEnd(InitialState(q), reply, broken)

\* the queries and the replies of the generation client
WorkflowQueries ==
    {"list documents", "what about the report", "show what we have", "hello there",
     "Find revenue",
     "[Context: User is likely referring to document 'report' (ID: report_96cff6b8)] what about it?"}

LlmReplies == {"Revenue rose in the quarter.", " open items \n"}

\* what becomes of one request of the generation client: a completion with
\* its content, or a failure of the request
GenerationOutcomes ==
    {[status |-> "ok", content |-> c] : c \in LlmReplies}
    \cup {[status |-> "timeout", content |-> ""],
          [status |-> "connection", content |-> ""]}

\* a plausible slip: a failed request yields no text
generate_response_noFallback(outcome) ==
    IF outcome.status = "ok" THEN Strip(outcome.content) ELSE ""

\* LMStudioClient.generate_response: the cleaned content, or the text that
\* stands for the failure
generate_response(outcome) ==
    CASE outcome.status = "ok" ->
           IF Strip(outcome.content) = "" THEN "I'm ready to help with your request."
           ELSE Strip(outcome.content)
      [] outcome.status = "timeout" -> "Response ready - please continue."
      [] outcome.status = "connection" ->
           "I'm having trouble connecting to the local AI model."
      [] OTHER -> "An unexpected error occurred while generating the response."

\* one step of a node that may call the generation client, the failure of
\* the call noted when the node made one
GenerationStep(w, outcome) ==
    Bind(generate_response(outcome), LAMBDA reply :
        Bind(WorkflowStep(w, reply, {}), LAMBDA next :
            [next EXCEPT !.failed =
                @ \/ (outcome.status # "ok"
                        /\ next.events[Len(next.events)]
                               \in {"direct", "rewrite", "generate"})]))

\* the files uploaded before the workflow is asked
WorkflowFiles ==
    { [path |-> "docs/report.txt", exists |-> TRUE, size |-> 33,   text |-> TextReport],
      [path |-> "docs/notes.PDF",  exists |-> TRUE, size |-> 4096, text |-> TextNotes],
      [path |-> "docs/faq.txt",    exists |-> TRUE, size |-> 39,   text |-> TextFaq] }


(***************************************************************************)
(* The document integration's conversational operations                    *)
(* (document_rag_integration.py) and the processor's summarize_document    *)
(* and compare_documents (agentic_rag.py).  An outcome holds the text      *)
(* returned, the searches and generation calls made, the query handed to   *)
(* the workflow and the integration's conversation context afterwards.     *)
(***************************************************************************)
ambiguous_terms ==
    <<"this", "that", "it", "the document", "this document", "that document">>

\* _add_context_to_query
AddContextToQuery(q, cc) ==
    IF ContainsAny(Strip(Lower(q)), ambiguous_terms) /\ cc.last_discussed_doc_id # ""
    THEN "[Context: User is likely referring to document '" \o cc.last_discussed_doc_name
         \o "' (ID: " \o cc.last_discussed_doc_id \o ")] " \o q
    ELSE q

\* a plausible slip: a response that names no known document resets the
\* last document
UpdatedDocumentContext_forget(cc, q, response) ==
    LET history == KeepLast(Append(cc.conversation_history, DocumentEntry(q, response)),
                            MaxHistory)
    IN  Bind(ResponseDocId(response), LAMBDA doc_id :
            [cc EXCEPT !.conversation_history = history,
                       !.last_discussed_doc_id = doc_id,
                       !.last_discussed_doc_name =
                           IF doc_id = "" THEN ""
                           ELSE DocOf(documents_metadata, doc_id).custom_name])

\* _update_conversation_context of the integration
UpdatedDocumentContext(cc, q, response) ==
    LET history == KeepLast(Append(cc.conversation_history, DocumentEntry(q, response)),
                            MaxHistory)
    IN  Bind(ResponseDocId(response), LAMBDA doc_id :
            IF doc_id # ""
            THEN [cc EXCEPT !.conversation_history = history,
                            !.last_discussed_doc_id = doc_id,
                            !.last_discussed_doc_name =
                                DocOf(documents_metadata, doc_id).custom_name]
            ELSE [cc EXCEPT !.conversation_history = history])

Outcome(response, calls, workflow_query, cc) ==
    [response |-> response, calls |-> calls, workflow_query |-> workflow_query,
     context |-> cc]

NotFound(doc_id) == "Document with ID '" \o doc_id \o "' not found."

\* a plausible slip: the lookup of the document is left out
KnownDocument_unchecked(doc_id) == TRUE

\* document_manager.get_document(doc_id) is not None
KnownDocument(doc_id) == HasDoc(documents_metadata, doc_id)

\* the retrieve-then-generate shape of summarize, analyze and extract
RetrieveThenGenerate(doc_id, search_query, k, empty_text, cc, reply, broken) ==
    IF search_documents(search_query, TRUE, <<doc_id>>, k, broken) = <<>>
    THEN Outcome(empty_text, <<"search">>, "", cc)
    ELSE Outcome(reply, <<"search", "generate">>, "", cc)

DocName(doc_id) ==
    IF HasDoc(documents_metadata, doc_id)
    THEN DocOf(documents_metadata, doc_id).custom_name ELSE doc_id

\* arg is the doc_id, the doc_ids or the query of the operation
DocumentCall(op, arg, cc, reply, broken) ==
    CASE op = "summarize_document" ->
           IF ~KnownDocument(arg) THEN Outcome(NotFound(arg), <<>>, "", cc)
           ELSE RetrieveThenGenerate(arg, "main topics key points summary", 10,
                    "No content found in document '" \o DocName(arg) \o "'.",
                    [cc EXCEPT !.last_discussed_doc_id = arg,
                               !.last_discussed_doc_name = DocName(arg)],
                    reply, broken)
      [] op = "analyze_document" ->
           IF ~KnownDocument(arg) THEN Outcome(NotFound(arg), <<>>, "", cc)
           ELSE RetrieveThenGenerate(arg, "general analysis insights", 8,
                    "No content found for analysis in document '" \o DocName(arg) \o "'.",
                    cc, reply, broken)
      [] op = "extract_information" ->
           IF ~KnownDocument(arg) THEN Outcome(NotFound(arg), <<>>, "", cc)
           ELSE RetrieveThenGenerate(arg, "dates information data points facts", 6,
                    "No dates information found in document '" \o DocName(arg) \o "'.",
                    cc, reply, broken)
      [] op = "compare_documents" ->
           IF Len(arg) < 2
           THEN Outcome("Please provide at least 2 documents to compare.", <<>>, "", cc)
           ELSE IF \E i \in 1..Len(arg) : ~KnownDocument(arg[i])
           THEN Outcome(NotFound(arg[CHOOSE i \in 1..Len(arg) :
                                       /\ ~KnownDocument(arg[i])
                                       /\ \A j \in 1..(i - 1) : KnownDocument(arg[j])]),
                        <<>>, "", cc)
           ELSE Outcome(reply, [i \in 1..Len(arg) |-> "search"] \o <<"generate">>, "", cc)
      [] op = "agentic_query" ->
           Bind(AddContextToQuery(arg, cc), LAMBDA enhanced_query :
               Bind(AgenticProcessQuery(enhanced_query, reply, broken).result,
                    LAMBDA response :
                        Outcome(response, <<"workflow">>, enhanced_query,
                                UpdatedDocumentContext(cc, arg, response))))
      [] op = "clear_context" ->
           Outcome("Conversation context cleared. Starting fresh.", <<>>, "", EmptyContext)
      [] op = "context_info" ->
           Outcome(IF cc.last_discussed_doc_id = "" THEN "No conversation context set."
                   ELSE "**Current Context:**\n- Last discussed document: "
                        \o cc.last_discussed_doc_name \o "\n- Document ID: "
                        \o cc.last_discussed_doc_id \o "\n- Conversation history: "
                        \o NatText(Len(cc.conversation_history)) \o " exchanges\n",
                   <<>>, "", cc)

(***************************************************************************)
(* The dispatcher: PersonalAssistant (assistant.py).  The cross mark that  *)
(* begins an error response is written "(x)".  What a service adapter      *)
(* returns, formatted, is a text naming the service and the action.        *)
(***************************************************************************)
\* ResponseGenerator.format_error_response; service is "" for None
format_error_response(error, service) ==
    IF service # ""
    THEN "(x) **" \o service \o " Error**: " \o error
         \o "\n\nTry checking your authentication settings or network connection."
    ELSE "(x) **Error**: " \o error

follow_up_patterns ==
    <<"what", "how", "why", "when", "where", "who", "this", "that", "it", "here",
      "there", "tell me", "explain", "describe", "show me", "more", "details", "about">>

\* a plausible slip: only the length of the query is looked at
IsFollowUpQuery_shortOnly(q, intent, ctx) ==
    /\ ctx.last_service # ""
    /\ ContainsAny(Strip(Lower(q)), follow_up_patterns)
    /\ WordCount(q) <= 8

\* _is_follow_up_query; ctx is current_context
IsFollowUpQuery(q, intent, ctx) ==
    /\ ctx.last_service # ""
    /\ ContainsAny(Strip(Lower(q)), follow_up_patterns)
    /\ \/ WordCount(q) <= 8
       \/ intent.confidence.num * 10 < 7 * intent.confidence.den
       \/ intent.service = "general"

\* `not intent.parameters.get(name)`
Lacks(parameters, name) == name \notin DOMAIN parameters \/ parameters[name] = ""

\* a plausible slip: only the document handler checks its parameters
MissingParameterPrompt_documentsOnly(intent) ==
    LET p == intent.parameters
        a == intent.action
        needs == CASE a = "upload_document" -> {"file_path"}
                   [] a \in {"search_documents", "agentic_query"} -> {"query"}
                   [] a = "extract_information" -> {"doc_id", "info_type"}
                   [] a \in {"delete_document", "summarize_document", "analyze_document",
                             "get_document_metadata"} -> {"doc_id"}
                   [] OTHER -> {}
    IN  IF /\ intent.service \in {"document_rag", "documents"}
           /\ \/ \E name \in needs : Lacks(p, name)
              \/ /\ a = "compare_documents"
                 /\ ("doc_ids" \notin DOMAIN p \/ Len(p.doc_ids) < 2)
        THEN "Please provide the missing value."
        ELSE ""

\* the prompt a handler returns for a missing parameter, "" when none is missing
MissingParameterPrompt(intent) ==
    LET p == intent.parameters
        a == intent.action
    IN  CASE intent.service = "gmail" ->
               CASE a = "get_emails_from_sender" /\ Lacks(p, "sender") ->
                      "Please specify which sender you want to see emails from."
                 [] a = "search_emails" /\ Lacks(p, "search_term") ->
                      "Please specify what to search for in emails."
                 [] a = "summarize_emails_from_sender" /\ Lacks(p, "sender") ->
                      "Please specify which sender you want to summarize emails from."
                 [] OTHER -> ""
          [] intent.service = "drive" ->
               CASE a \in {"search_files", "search_and_read_files"}
                      /\ Lacks(p, "search_term") ->
                      "Please specify what to search for in Drive."
                 [] a = "get_file_info" /\ Lacks(p, "file_id") ->
                      "Please specify the file ID to get information about."
                 [] a = "read_file_by_name" /\ Lacks(p, "file_name") ->
                      "Please specify the file name to read."
                 [] OTHER -> ""
          [] intent.service \in {"document_rag", "documents"} ->
               CASE a = "upload_document" /\ Lacks(p, "file_path") ->
                      "Please provide the file path to upload a document."
                 [] a = "delete_document" /\ Lacks(p, "doc_id") ->
                      "Please provide the document ID to delete."
                 [] a = "search_documents" /\ Lacks(p, "query") ->
                      "Please provide a search query."
                 [] a = "agentic_query" /\ Lacks(p, "query") ->
                      "Please provide a query for the agentic RAG system."
                 [] a = "summarize_document" /\ Lacks(p, "doc_id") ->
                      "Please provide the document ID to summarize."
                 [] a = "compare_documents"
                      /\ ("doc_ids" \notin DOMAIN p \/ Len(p.doc_ids) < 2) ->
                      "Please provide at least 2 document IDs to compare."
                 [] a = "analyze_document" /\ Lacks(p, "doc_id") ->
                      "Please provide the document ID to analyze."
                 [] a = "extract_information"
                      /\ (Lacks(p, "doc_id") \/ Lacks(p, "info_type")) ->
                      "Please provide both document ID and information type to extract."
                 [] a = "get_document_metadata" /\ Lacks(p, "doc_id") ->
                      "Please provide the document ID to get metadata."
                 [] OTHER -> ""
          [] OTHER -> ""

\* the integration a service's handler needs, "" for the general handler
IntegrationOf(service) ==
    IF service \in {"document_rag", "documents"} THEN "document_rag"
    ELSE IF service \in {"gmail", "github", "calendar", "drive"} THEN service
    ELSE ""

NotAvailable(service) ==
    CASE service = "gmail" ->
           format_error_response("Gmail integration not available or not authenticated.",
                                 "Gmail")
      [] service = "github" ->
           format_error_response("GitHub integration not available or not authenticated.",
                                 "GitHub")
      [] service = "calendar" ->
           format_error_response("Calendar integration not available or not authenticated.",
                                 "Calendar")
      [] service = "drive" ->
           format_error_response(
               "Google Drive integration not available or not authenticated.", "Drive")
      [] OTHER ->
           format_error_response(
               "Document RAG integration not available or not authenticated.",
               "Document RAG")

\* format_document_rag_response is not a method of ResponseGenerator: the
\* call raises AttributeError, which the handler turns into this text
DocumentError ==
    format_error_response("An error occurred while processing your document request.", "")

\* the argument of the document operation an intent asks for
DocumentArg(intent) ==
    CASE intent.action = "agentic_query" -> intent.parameters.query
      [] intent.action = "compare_documents" -> intent.parameters.doc_ids
      [] intent.action \in {"clear_context", "context_info"} -> ""
      [] OTHER -> intent.parameters.doc_id

\* the handlers _handle_*_query, for the actions that leave the store as it
\* is; auth is the set of authenticated integrations
HandleIntent(given, auth, cc, reply, broken) ==
  Bind(given, LAMBDA intent :
    IF IntegrationOf(intent.service) = ""
    THEN IF intent.service = "general"
         THEN Outcome("[general] " \o intent.action, <<>>, "", cc)
         ELSE Outcome(format_error_response("Unknown service: " \o intent.service, ""),
                      <<>>, "", cc)
    ELSE IF IntegrationOf(intent.service) \notin auth
    THEN Outcome(NotAvailable(intent.service), <<>>, "", cc)
    ELSE IF MissingParameterPrompt(intent) # ""
    THEN Outcome(MissingParameterPrompt(intent), <<>>, "", cc)
    ELSE IF IntegrationOf(intent.service) # "document_rag"
    THEN Outcome("[" \o intent.service \o "] " \o intent.action,
                 <<"adapter">>, "", cc)
    ELSE Bind(DocumentCall(intent.action, DocumentArg(intent), cc, reply, broken),
              LAMBDA out :
                  IF intent.action \in {"agentic_query", "clear_context", "context_info"}
                  THEN out
                  ELSE [out EXCEPT !.response = DocumentError]))

GenericError ==
    format_error_response(
        "I encountered an error processing your request. Please try again.", "")

\* a plausible slip: no try/except around the body of process_query
OnException_propagate(cc) ==
    [op |-> "process_query", raised |-> TRUE, propagated |-> TRUE, response |-> "",
     context |-> cc, updated |-> FALSE]

\* what process_query makes of an exception raised in its body
OnException(cc) ==
    [op |-> "process_query", raised |-> TRUE, propagated |-> FALSE,
     response |-> GenericError, context |-> cc, updated |-> FALSE]

\* a plausible slip: every follow-up is overridden, whatever was dispatched last
process_query_anyLastService(q, intent, auth, ctx, cc, reply, broken) ==
    IF intent.status = "raise" THEN OnException(cc)
    ELSE Bind(IsFollowUpQuery(q, intent, ctx), LAMBDA follow_up :
             LET final == IF follow_up
                          THEN [service |-> "document_rag",
                                action |-> "agentic_query",
                                parameters |->
                                  [k \in DOMAIN intent.parameters \cup {"query"} |->
                                      IF k = "query" THEN q
                                      ELSE intent.parameters[k]]]
                          ELSE [service |-> intent.service,
                                action |-> intent.action,
                                parameters |-> intent.parameters]
             IN  Bind(HandleIntent(final, auth, cc, reply, broken), LAMBDA out :
                     [op |-> "process_query", raised |-> FALSE, propagated |-> FALSE,
                      response |-> out.response, context |-> out.context,
                      updated |-> TRUE,
                      follow_up |-> follow_up, overridden |-> follow_up,
                      service |-> final.service, action |-> final.action,
                      calls |-> out.calls, workflow_query |-> out.workflow_query]))

\* PersonalAssistant.process_query, given what query_parser.parse(query)
\* produced; ctx is current_context, cc the integration's context
process_query(q, intent, auth, ctx, cc, reply, broken) ==
    IF intent.status = "raise" THEN OnException(cc)
    ELSE Bind(IsFollowUpQuery(q, intent, ctx), LAMBDA follow_up :
             LET overridden == follow_up /\ ctx.last_service = "document_rag"
                 final      == IF overridden
                               THEN [service |-> "document_rag",
                                     action |-> "agentic_query",
                                     parameters |->
                                       [k \in DOMAIN intent.parameters \cup {"query"} |->
                                           IF k = "query" THEN q
                                           ELSE intent.parameters[k]]]
                               ELSE [service |-> intent.service,
                                     action |-> intent.action,
                                     parameters |-> intent.parameters]
             IN  Bind(HandleIntent(final, auth, cc, reply, broken), LAMBDA out :
                     [op |-> "process_query", raised |-> FALSE, propagated |-> FALSE,
                      response |-> out.response, context |-> out.context,
                      updated |-> TRUE,
                      follow_up |-> follow_up, overridden |-> overridden,
                      service |-> final.service, action |-> final.action,
                      calls |-> out.calls, workflow_query |-> out.workflow_query]))

NoInvocation == [node |-> "idle"]
\* ---- adapter cache (src/src/integrations/base_integration.py) ----

\* BaseIntegration.__init__: cache_duration, in seconds
CacheDuration == 300

\* Python's None, as _get_cached returns it and as _clear_cache() receives it
PyNone == "None"

\* the keys the adapters cache under, and the data they store
CacheKeys == {"unread_count", "today_events"}
CacheEntries == {[key |-> "unread_count", data |-> "3 unread"],
                 [key |-> "unread_count", data |-> "5 unread"],
                 [key |-> "today_events", data |-> "2 events"]}
\* the arguments _clear_cache is called with
ClearKeys == {PyNone, "unread_count"}
\* the seconds that pass between two cache calls
Elapses == {1, CacheDuration - 1}

\* a dict: a function on the keys it holds
EmptyDict == [key \in {} |-> PyNone]
DictSet(d, key, value) ==
    [k \in DOMAIN d \cup {key} |-> IF k = key THEN value ELSE d[k]]
DictPop(d, key) == [k \in DOMAIN d \ {key} |-> d[k]]
DictGet(d, key) == IF key \in DOMAIN d THEN d[key] ELSE PyNone

\* the truth value of an Optional[str] argument
Truthy(key) == key \notin {PyNone, ""}

is_cache_valid_atExpiry(timestamps, time, key) ==
    /\ key \in DOMAIN timestamps
    /\ time <= timestamps[key] + CacheDuration

\* BaseIntegration._is_cache_valid
is_cache_valid(timestamps, time, key) ==
    /\ key \in DOMAIN timestamps
    /\ time < timestamps[key] + CacheDuration

\* BaseIntegration._get_cached
get_cached(c, timestamps, time, key) ==
    IF is_cache_valid(timestamps, time, key) THEN DictGet(c, key) ELSE PyNone

NoDispatch == [op |-> "none"]

Init ==
    /\ query = ""
    /\ now = FirstNow
    /\ parsed = NotCalled
    /\ documents_metadata = <<>>
    /\ stored_files = {}
    /\ vectorstores = NoVectorstores
    /\ lastCall = Idle
    /\ conversation_history = <<>>
    /\ current_context = [last_service |-> "", last_action |-> "", last_response |-> ""]
    /\ conversation_context = EmptyContext
    /\ recorded = [assistant |-> <<>>, document |-> <<>>]
    /\ wf = NoInvocation
    /\ authenticated = {}
    /\ dispatch = NoDispatch
    /\ cache = EmptyDict
    /\ cache_timestamps = EmptyDict
    /\ clock = 0
    /\ cacheTrace = <<>>

\* one call of QueryParser.parse
Parse(q, today) ==
    /\ parsed = NotCalled
    /\ query' = q
    /\ now' = today
    /\ parsed' = parse(q, today)
    /\ UNCHANGED <<storeVars, chatVars, workflowVars, dispatchVars, cacheVars>>

ParserNext == \E q \in Queries, today \in NowOrdinals : Parse(q, today)

SpecParser == Init /\ [][ParserNext]_vars

Upload(f, custom_name, fault) ==
    /\ lastCall = Idle
    /\ LET r == upload_document(f, custom_name, fault)
       IN  /\ documents_metadata' = r.md
           /\ stored_files' = r.files
           /\ vectorstores' = r.stores
           /\ lastCall' = [op |-> "upload", path |-> f.path, custom_name |-> custom_name,
                           fault |-> fault, outcome |-> r.outcome, result |-> r.result]
    /\ UNCHANGED <<parserVars, chatVars, workflowVars, dispatchVars, cacheVars>>

Delete(doc_id, fault) ==
    /\ lastCall = Idle
    /\ LET r == delete_document(doc_id, fault)
       IN  /\ documents_metadata' = r.md
           /\ stored_files' = r.files
           /\ vectorstores' = r.stores
           /\ lastCall' = [op |-> "delete", doc_id |-> doc_id, fault |-> fault,
                           raised |-> r.raised, result |-> r.result]
    /\ UNCHANGED <<parserVars, chatVars, workflowVars, dispatchVars, cacheVars>>

SearchDocuments(q, given, doc_ids, k, broken) ==
    /\ lastCall = Idle
    /\ lastCall' = [op |-> "search", query |-> q, given |-> given, doc_ids |-> doc_ids,
                    k |-> k, broken |-> broken,
                    result |-> search_documents(q, given, doc_ids, k, broken)]
    /\ UNCHANGED <<documents_metadata, stored_files, vectorstores, parserVars, chatVars,
                   workflowVars, dispatchVars, cacheVars>>

\* the caller takes the result
Return ==
    /\ lastCall # Idle
    /\ lastCall' = Idle
    /\ UNCHANGED <<documents_metadata, stored_files, vectorstores, parserVars, chatVars,
                   workflowVars, dispatchVars, cacheVars>>

StoreNext ==
    \/ \E f \in SourceFiles, c \in CustomNames, fault \in UploadFaults : Upload(f, c, fault)
    \/ \E id \in DocIdInputs, fault \in DeleteFaults : Delete(id, fault)
    \/ \E q \in SearchQueries, k \in 0..MaxK, broken \in BrokenInputs :
          \/ SearchDocuments(q, FALSE, <<>>, k, broken)
          \/ \E ids \in SeqsUpTo(DocIdInputs, MaxIds) : SearchDocuments(q, TRUE, ids, k, broken)
    \/ Return

SpecStore == Init /\ [][StoreNext]_vars

\* PersonalAssistant._update_conversation_context
UpdateConversationContext(q, intent, response) ==
    /\ Len(recorded.assistant) + Len(recorded.document) < MaxExchanges
    /\ conversation_history' =
           KeepLast(Append(conversation_history, AssistantEntry(q, intent, response)),
                    MaxHistory)
    /\ current_context' = [last_service |-> intent.service,
                           last_action |-> intent.action,
                           last_response |-> Excerpt(response)]
    /\ recorded' = [recorded EXCEPT
                      !.assistant = Append(@, AssistantEntry(q, intent, response))]
    /\ UNCHANGED <<conversation_context, parserVars, storeVars, workflowVars, dispatchVars, cacheVars>>

\* DocumentRAGIntegration._update_conversation_context
UpdateDocumentContext(q, response) ==
    /\ Len(recorded.assistant) + Len(recorded.document) < MaxExchanges
    /\ conversation_context' = UpdatedDocumentContext(conversation_context, q, response)
    /\ recorded' = [recorded EXCEPT !.document = Append(@, DocumentEntry(q, response))]
    /\ UNCHANGED <<conversation_history, current_context, parserVars, storeVars,
                   workflowVars, dispatchVars, cacheVars>>

\* DocumentRAGIntegration.clear_conversation_context
ClearConversationContext ==
    /\ conversation_context # EmptyContext
    /\ conversation_context' = EmptyContext
    /\ recorded' = [recorded EXCEPT !.document = <<>>]
    /\ UNCHANGED <<conversation_history, current_context, parserVars, storeVars,
                   workflowVars, dispatchVars, cacheVars>>

ChatNext ==
    \/ \E x \in AssistantExchanges :
          UpdateConversationContext(x.query, [service |-> x.service, action |-> x.action],
                                    x.response)
    \/ \E x \in DocumentExchanges : UpdateDocumentContext(x.query, x.response)
    \/ ClearConversationContext

SpecChat == Init /\ [][ChatNext]_vars

(***************************************************************************)
(* One invocation of the workflow at a time, step by step.                 *)
(***************************************************************************)
Invoke(q) ==
    /\ wf = NoInvocation
    /\ lastCall = Idle
    /\ wf' = InitialState(q)
    /\ UNCHANGED <<parserVars, storeVars, chatVars, dispatchVars, cacheVars>>

Running == wf.node \in {"query_or_respond", "tools", "rewrite_query", "generate_answer"}

RunQueryOrRespond(outcome) ==
    /\ wf.node = "query_or_respond"
    /\ StepsLeft(wf)
    /\ wf' = GenerationStep(wf, outcome)
    /\ UNCHANGED <<parserVars, storeVars, chatVars, dispatchVars, cacheVars>>

RunTools(broken) ==
    /\ wf.node = "tools"
    /\ StepsLeft(wf)
    /\ wf' = WorkflowStep(wf, "", broken)
    /\ UNCHANGED <<parserVars, storeVars, chatVars, dispatchVars, cacheVars>>

RunRewriteQuery(outcome) ==
    /\ wf.node = "rewrite_query"
    /\ StepsLeft(wf)
    /\ wf' = GenerationStep(wf, outcome)
    /\ UNCHANGED <<parserVars, storeVars, chatVars, dispatchVars, cacheVars>>

RunGenerateAnswer(outcome) ==
    /\ wf.node = "generate_answer"
    /\ StepsLeft(wf)
    /\ wf' = GenerationStep(wf, outcome)
    /\ UNCHANGED <<parserVars, storeVars, chatVars, dispatchVars, cacheVars>>

\* GraphRecursionError, caught by process_query
OutOfSteps ==
    /\ Running
    /\ ~StepsLeft(wf)
    /\ wf' = Returned(wf, RecursionErrorText)
    /\ UNCHANGED <<parserVars, storeVars, chatVars, dispatchVars, cacheVars>>

\* the graph reached END: process_query returns the last message
ReturnResponse ==
    /\ wf.node = "END"
    /\ wf' = Returned(wf, FinalResponse(wf.messages))
    /\ UNCHANGED <<parserVars, storeVars, chatVars, dispatchVars, cacheVars>>

\* the caller takes the response
TakeResponse ==
    /\ wf.node = "returned"
    /\ wf' = NoInvocation
    /\ UNCHANGED <<parserVars, storeVars, chatVars, dispatchVars, cacheVars>>

WorkflowProgress ==
    \/ \E outcome \in GenerationOutcomes : RunQueryOrRespond(outcome)
    \/ \E broken \in BrokenInputs : RunTools(broken)
    \/ \E outcome \in GenerationOutcomes : RunRewriteQuery(outcome)
    \/ \E outcome \in GenerationOutcomes : RunGenerateAnswer(outcome)
    \/ OutOfSteps
    \/ ReturnResponse

WorkflowNext ==
    \/ \E f \in WorkflowFiles : wf = NoInvocation /\ Upload(f, "", "none")
    \/ wf = NoInvocation /\ Return
    \/ \E q \in WorkflowQueries : Invoke(q)
    \/ WorkflowProgress
    \/ TakeResponse

SpecWorkflow == Init /\ [][WorkflowNext]_vars

\* process_query is synchronous code: an invocation keeps running
SpecWorkflowFair == SpecWorkflow /\ WF_vars(WorkflowProgress)

(***************************************************************************)
(* The dispatcher's callers: initialize(), process_query(query), a handler *)
(* called with an intent, an operation of the document integration.        *)
(***************************************************************************)
MaxQueries == 2

DispatchQueries ==
    {"summarize document report_96cff6b8", "what are the key findings?",
     "what about it?", "clear context", "email from bob last 9999999 days"}

NoParameters == [k \in {} |-> ""]

HandlerIntents ==
    { [service |-> "gmail", action |-> "get_emails_from_sender", parameters |-> NoParameters],
      [service |-> "gmail", action |-> "get_emails_from_sender",
       parameters |-> [sender |-> "bob"]],
      [service |-> "gmail", action |-> "search_emails", parameters |-> NoParameters],
      [service |-> "gmail", action |-> "summarize_emails_from_sender",
       parameters |-> [sender |-> ""]],
      [service |-> "drive", action |-> "search_files", parameters |-> NoParameters],
      [service |-> "document_rag", action |-> "upload_document",
       parameters |-> NoParameters],
      [service |-> "document_rag", action |-> "delete_document",
       parameters |-> NoParameters],
      [service |-> "document_rag", action |-> "search_documents",
       parameters |-> NoParameters],
      [service |-> "document_rag", action |-> "agentic_query", parameters |-> NoParameters],
      [service |-> "document_rag", action |-> "summarize_document",
       parameters |-> NoParameters],
      [service |-> "document_rag", action |-> "summarize_document",
       parameters |-> [doc_id |-> "report_96cff6b8"]],
      [service |-> "document_rag", action |-> "compare_documents",
       parameters |-> [doc_ids |-> <<"report_96cff6b8">>]],
      [service |-> "document_rag", action |-> "analyze_document",
       parameters |-> NoParameters],
      [service |-> "document_rag", action |-> "extract_information",
       parameters |-> [doc_id |-> "report_96cff6b8"]] }

\* the display names given at upload: the file's stem, or a custom name
DispatchNames == {"", "report [v2]"}

DocumentOperations ==
    {[op |-> o, arg |-> id] :
        o \in {"summarize_document", "analyze_document", "extract_information"},
        id \in {"report_96cff6b8", "ghost_00000000"}}
    \cup {[op |-> "compare_documents", arg |-> ids] :
            ids \in {<<"report_96cff6b8", "ghost_00000000">>,
                     <<"ghost_00000000", "report_96cff6b8">>,
                     <<"report_96cff6b8", "report_96cff6b8">>}}

DispatchBroken == {{}, {"report_96cff6b8"}}

\* no call of the store or of the workflow is in progress
Quiet == lastCall = Idle /\ wf = NoInvocation

\* PersonalAssistant.initialize: the integrations that authenticate
Initialize(auth) ==
    /\ Quiet
    /\ authenticated = {}
    /\ dispatch = NoDispatch
    /\ authenticated' = auth
    /\ UNCHANGED <<dispatch, parserVars, storeVars, chatVars, workflowVars, cacheVars>>

\* PersonalAssistant.process_query(q); the replies of the generation client
\* and the indexes that fail to load are the environment's
ProcessQuery(q) ==
    /\ Quiet
    /\ dispatch.op \in {"none", "process_query"}
    /\ \E intent \in {parse(q, FirstNow)}, reply \in LlmReplies, broken \in DispatchBroken :
         \E out \in {process_query(q, intent, authenticated, current_context,
                                   conversation_context, reply, broken)} :
            /\ dispatch' = [k \in DOMAIN out \ {"context"} |-> out[k]]
                              @@ [query |-> q,
                                  after_error |-> dispatch.op = "process_query"
                                                    /\ dispatch.raised]
            /\ conversation_context' = out.context
            /\ IF out.updated
               THEN \E entry \in {AssistantEntry(q, [service |-> out.service,
                                                     action |-> out.action],
                                                 out.response)} :
                      /\ conversation_history' =
                             KeepLast(Append(conversation_history, entry), MaxHistory)
                      /\ current_context' = [last_service |-> out.service,
                                             last_action |-> out.action,
                                             last_response |-> Excerpt(out.response)]
                      /\ recorded' =
                             [assistant |-> Append(recorded.assistant, entry),
                              document |->
                                  IF out.context.conversation_history = <<>> THEN <<>>
                                  ELSE IF out.calls = <<"workflow">>
                                  THEN Append(recorded.document,
                                              DocumentEntry(q, out.response))
                                  ELSE recorded.document]
               ELSE UNCHANGED <<conversation_history, current_context, recorded>>
    /\ UNCHANGED <<authenticated, parserVars, storeVars, workflowVars, cacheVars>>

\* one of the handlers called with an intent
Handle(intent, reply, broken) ==
    /\ Quiet
    /\ dispatch = NoDispatch
    /\ \E out \in {HandleIntent(intent, authenticated, conversation_context,
                                reply, broken)} :
         /\ dispatch' = [op |-> "handle", intent |-> intent, raised |-> FALSE,
                         response |-> out.response, calls |-> out.calls]
         /\ conversation_context' = out.context
    /\ UNCHANGED <<authenticated, conversation_history, current_context, recorded,
                   parserVars, storeVars, workflowVars, cacheVars>>

\* summarize_document, analyze_document_content, extract_key_information or
\* compare_documents of the integration; APIError when it is not authenticated
DocumentOperation(x, reply, broken) ==
    /\ Quiet
    /\ dispatch = NoDispatch
    /\ IF "document_rag" \notin authenticated
       THEN /\ dispatch' = [op |-> x.op, arg |-> x.arg, raised |-> TRUE,
                            response |-> "", calls |-> <<>>]
            /\ UNCHANGED conversation_context
       ELSE \E out \in {DocumentCall(x.op, x.arg, conversation_context, reply, broken)} :
              /\ dispatch' = [op |-> x.op, arg |-> x.arg, raised |-> FALSE,
                              response |-> out.response, calls |-> out.calls,
                              workflow_query |-> out.workflow_query,
                              previous |-> conversation_context.last_discussed_doc_id]
              /\ conversation_context' = out.context
    /\ UNCHANGED <<authenticated, conversation_history, current_context, recorded,
                   parserVars, storeVars, workflowVars, cacheVars>>

\* the caller of a handler or of an operation takes the result
TakeResult ==
    /\ dispatch.op \notin {"none", "process_query"}
    /\ dispatch' = NoDispatch
    /\ UNCHANGED <<authenticated, parserVars, storeVars, chatVars, workflowVars, cacheVars>>

DispatchNext ==
    \/ dispatch = NoDispatch /\ authenticated # {} /\ wf = NoInvocation
         /\ conversation_context = EmptyContext
         /\ \E custom_name \in DispatchNames :
               Upload([path |-> "docs/report.txt", exists |-> TRUE, size |-> 33,
                       text |-> TextReport], custom_name, "none")
    \/ dispatch = NoDispatch /\ Return
    \/ Initialize({"gmail", "document_rag"})
    \/ Len(recorded.assistant) < MaxQueries /\ \E q \in DispatchQueries : ProcessQuery(q)
    \/ \E intent \in HandlerIntents, reply \in LlmReplies, broken \in DispatchBroken :
          Handle(intent, reply, broken)
    \/ \E x \in DocumentOperations, reply \in LlmReplies, broken \in DispatchBroken :
          DocumentOperation(x, reply, broken)
    \/ TakeResult

SpecDispatch == Init /\ [][DispatchNext]_vars

(***************************************************************************)
(* The document integration with uploads and deletions between its calls:  *)
(* summaries, agentic queries and clearing of the conversation context.    *)
(***************************************************************************)
MaxContextCalls == 2

ContextOperations ==
    {[op |-> "summarize_document", arg |-> "report_96cff6b8"],
     [op |-> "agentic_query", arg |-> "what about it?"],
     [op |-> "agentic_query", arg |-> "hello there"]}

ContextReplies ==
    {"Revenue rose in the quarter.", "Document ID: report_96cff6b8 is the report."}

ContextNext ==
    \/ Initialize({"document_rag"})
    \/ /\ dispatch = NoDispatch
       /\ authenticated # {}
       /\ wf = NoInvocation
       /\ \/ Upload([path |-> "docs/report.txt", exists |-> TRUE, size |-> 33,
                      text |-> TextReport], "", "none")
          \/ Delete("report_96cff6b8", "none")
          \/ Return
          \/ ClearConversationContext
    \/ /\ authenticated # {}
       /\ Len(conversation_context.conversation_history) < MaxContextCalls
       /\ \E x \in ContextOperations, reply \in ContextReplies :
             DocumentOperation(x, reply, {})
    \/ TakeResult

SpecContext == Init /\ [][ContextNext]_vars

(***************************************************************************)
(* Follow-up detection called by itself, after exchanges that set the      *)
(* assistant's current context.                                            *)
(***************************************************************************)
FollowUpQueries ==
    {"what about it?", "recent emails", "WHAT NOW",
     "list every email bob sent to the sales team during june and july",
     "tell me everything bob sent to the sales team during june and july"}

\* QueryIntent values: the service and the confidence are what is read
FollowUpIntents ==
    {[service |-> "gmail", action |-> "get_recent_emails", parameters |-> NoParameters,
      confidence |-> [num |-> 9, den |-> 10]],
     [service |-> "gmail", action |-> "get_recent_emails", parameters |-> NoParameters,
      confidence |-> [num |-> 7, den |-> 10]],
     [service |-> "gmail", action |-> "get_recent_emails", parameters |-> NoParameters,
      confidence |-> [num |-> 69, den |-> 100]],
     [service |-> "general", action |-> "general_query", parameters |-> NoParameters,
      confidence |-> [num |-> 9, den |-> 10]]}

\* PersonalAssistant._is_follow_up_query(q, intent)
IsFollowUp(q, intent) ==
    /\ Quiet
    /\ dispatch = NoDispatch
    /\ dispatch' = [op |-> "is_follow_up", query |-> q, intent |-> intent,
                    raised |-> FALSE,
                    result |-> IsFollowUpQuery(q, intent, current_context)]
    /\ UNCHANGED <<authenticated, parserVars, storeVars, chatVars, workflowVars, cacheVars>>

FollowUpNext ==
    \/ /\ dispatch = NoDispatch
       /\ \E x \in AssistantExchanges :
             UpdateConversationContext(x.query,
                                       [service |-> x.service, action |-> x.action],
                                       x.response)
    \/ \E q \in FollowUpQueries, intent \in FollowUpIntents : IsFollowUp(q, intent)
    \/ TakeResult

SpecFollowUp == Init /\ [][FollowUpNext]_vars

(***************************************************************************)
(* The dispatcher over several queries in a row: which of them arm the     *)
(* override to the document workflow.                                      *)
(***************************************************************************)
MaxArmingQueries == 3

ArmingQueries ==
    {"summarize document report_96cff6b8", "what about it?", "recent emails",
     "email from bob last 9999999 days"}

ArmingNext ==
    \/ Initialize({"gmail", "document_rag"})
    \/ dispatch = NoDispatch /\ authenticated # {} /\ wf = NoInvocation
         /\ Upload([path |-> "docs/report.txt", exists |-> TRUE, size |-> 33,
                    text |-> TextReport], "", "none")
    \/ dispatch = NoDispatch /\ Return
    \/ Len(recorded.assistant) < MaxArmingQueries
         /\ \E q \in ArmingQueries : ProcessQuery(q)

SpecArming == Init /\ [][ArmingNext]_vars

\* ---- the adapter cache ----

\* the number of cache calls and waits in one behaviour
MaxCacheCalls == 5

\* time passes between two cache calls
Elapse(seconds) ==
    /\ Len(cacheTrace) < MaxCacheCalls
    /\ clock' = clock + seconds
    /\ cacheTrace' = Append(cacheTrace, [op |-> "elapse", seconds |-> seconds])
    /\ UNCHANGED <<cache, cache_timestamps, parserVars, storeVars, chatVars, workflowVars,
                   dispatchVars>>

\* BaseIntegration._set_cache
SetCache(key, data) ==
    /\ Len(cacheTrace) < MaxCacheCalls
    /\ cache' = DictSet(cache, key, data)
    /\ cache_timestamps' = DictSet(cache_timestamps, key, clock)
    /\ cacheTrace' = Append(cacheTrace, [op |-> "set", key |-> key, data |-> data])
    /\ UNCHANGED <<clock, parserVars, storeVars, chatVars, workflowVars, dispatchVars>>

\* BaseIntegration._get_cached
GetCached(key) ==
    /\ Len(cacheTrace) < MaxCacheCalls
    /\ cacheTrace' = Append(cacheTrace,
            [op |-> "get", key |-> key,
             result |-> get_cached(cache, cache_timestamps, clock, key)])
    /\ UNCHANGED <<cache, cache_timestamps, clock, parserVars, storeVars, chatVars,
                   workflowVars, dispatchVars>>

\* BaseIntegration._clear_cache
ClearCache(key) ==
    /\ Len(cacheTrace) < MaxCacheCalls
    /\ IF Truthy(key)
       THEN /\ cache' = DictPop(cache, key)
            /\ cache_timestamps' = DictPop(cache_timestamps, key)
       ELSE /\ cache' = EmptyDict
            /\ cache_timestamps' = EmptyDict
    /\ cacheTrace' = Append(cacheTrace, [op |-> "clear", key |-> key])
    /\ UNCHANGED <<clock, parserVars, storeVars, chatVars, workflowVars, dispatchVars>>

CacheNext ==
    \/ \E seconds \in Elapses : Elapse(seconds)
    \/ \E entry \in CacheEntries : SetCache(entry.key, entry.data)
    \/ \E key \in CacheKeys : GetCached(key)
    \/ \E key \in ClearKeys : ClearCache(key)

SpecCache == Init /\ [][CacheNext]_vars

Next ==
    \/ ParserNext
    \/ StoreNext
    \/ ChatNext
    \/ WorkflowNext
    \/ DispatchNext
    \/ ContextNext
    \/ FollowUpNext
    \/ ArmingNext
    \/ CacheNext

Spec == Init /\ [][Next]_vars

(***************************************************************************)
(* Properties of the intent parser.                                        *)
(***************************************************************************)
\* the domains in the order the specification gives them: email, source
\* control, calendar, document corpus, file storage, general
ClaimedDomainOrder ==
    << [service |-> "gmail",        patterns |-> email_patterns],
       [service |-> "github",       patterns |-> github_patterns],
       [service |-> "calendar",     patterns |-> calendar_patterns],
       [service |-> "document_rag", patterns |-> document_rag_patterns],
       [service |-> "drive",        patterns |-> drive_patterns],
       [service |-> "general",      patterns |-> general_patterns] >>

\* the (domain, pattern) positions whose pattern matches q
Hits(q) ==
    {h \in UNION {{<<d, i>> : i \in 1..Len(ClaimedDomainOrder[d].patterns)} :
                     d \in 1..Len(ClaimedDomainOrder)} :
        Search(ClaimedDomainOrder[h[1]].patterns[h[2]].re, q)}

\* the earliest of them: first by domain, then by place in the list
Earliest(hits) ==
    CHOOSE h \in hits :
        \A g \in hits : h[1] < g[1] \/ (h[1] = g[1] /\ h[2] <= g[2])

QueryLower == Strip(Lower(query))

C2_FirstMatchWins ==
    (parsed # NotCalled /\ parsed.status = "ok") =>
        \A hits \in {Hits(QueryLower)} : hits # {} =>
            LET h == Earliest(hits)
            IN  /\ parsed.service = ClaimedDomainOrder[h[1]].service
                /\ parsed.action = ClaimedDomainOrder[h[1]].patterns[h[2]].action

\* a query that a file-storage pattern matches too was given to the
\* document corpus
C2_Witness ==
    /\ parsed # NotCalled
    /\ parsed.status = "ok"
    /\ parsed.service = "document_rag"
    /\ \E i \in 1..Len(drive_patterns) : Search(drive_patterns[i].re, QueryLower)

\* C3: for a query that matches a pattern the confidence is
\* min(0.5 + 0.3 * min(pattern words / query words, 1) + 0.1 * (keywords
\* found in the query), 1.0), hence at least 0.5 and at most 1.0.
C3_ConfidenceFormula ==
    (parsed # NotCalled /\ parsed.status = "ok") =>
      \A q \in {QueryLower} : \A hits \in {Hits(q)} : hits # {} =>
        \A h \in {Earliest(hits)} :
        LET pw  == WordCount(ClaimedDomainOrder[h[1]].patterns[h[2]].src)
            qw  == WordCount(q)
            kw  == Cardinality({i \in 1..Len(exact_keywords) :
                                  Contains(q, exact_keywords[i])})
            c   == parsed.confidence
        IN  /\ qw > 0 /\ c.den > 0
            \* c = min(5/10 + 3/10 * min(pw/qw, 1) + kw/10, 1)
            /\ c.num * (10 * qw)
                 = c.den * Min(5 * qw + 3 * Min(pw, qw) + kw * qw, 10 * qw)
            /\ 2 * c.num >= c.den
            /\ c.num <= c.den

\* a matched query whose sum exceeds 1.0 before the final min
C3_Witness ==
    /\ parsed # NotCalled
    /\ parsed.status = "ok"
    /\ parsed.confidence.num = parsed.confidence.den
    /\ \E q \in {QueryLower} : \E hits \in {Hits(q)} : hits # {} /\
       LET h  == Earliest(hits)
           pw == WordCount(ClaimedDomainOrder[h[1]].patterns[h[2]].src)
           qw == WordCount(q)
           kw == Cardinality({i \in 1..Len(exact_keywords) :
                                Contains(q, exact_keywords[i])})
       IN  5 * qw + 3 * Min(pw, qw) + kw * qw > 10 * qw

(***************************************************************************)
(* Properties of the document store.  A step from Idle to a call is the    *)
(* execution of that call: the unprimed store is the store before it.      *)
(***************************************************************************)
FileAt(path) == CHOOSE f \in SourceFiles : f.path = path

StoreUnchanged ==
    /\ documents_metadata' = documents_metadata
    /\ stored_files' = stored_files
    /\ vectorstores' = vectorstores

\* C4: uploading the same content under the same filename a second time,
\* with or without another custom name, returns the record that exists
\* already, with the doc_id of the first upload, and adds no record, no
\* stored file and no index.
C4_UploadIdempotent ==
    [][(lastCall = Idle /\ lastCall'.op = "upload") =>
         LET f  == FileAt(lastCall'.path)
             id == GenerateDocId(PathName(f.path), f.text)
         IN  /\ lastCall'.outcome = "ok" => lastCall'.result.doc_id = id
             /\ ( /\ f.exists
                  /\ Lower(PathSuffix(f.path)) \in SUPPORTED_FORMATS
                  /\ f.size <= max_file_size
                  /\ lastCall'.fault # "extract"
                  /\ HasDoc(documents_metadata, id) ) =>
                    /\ lastCall'.outcome = "ok"
                    /\ lastCall'.result = DocOf(documents_metadata, id)
                    /\ StoreUnchanged
      ]_vars

\* a second upload under another custom name returned the first record
C4_Witness ==
    /\ lastCall.op = "upload"
    /\ lastCall.outcome = "ok"
    /\ lastCall.path = "docs/report.txt"
    /\ lastCall.custom_name = "Q3 report"
    /\ lastCall.result.original_filename = "report.txt"
    /\ lastCall.result.custom_name = "report"

\* C5: an upload rejected for its extension, its size or its blank text
\* fails with the matching error and leaves records, stored files and
\* indexes as they were.
C5_RejectedUploadLeavesStore ==
    [][(lastCall = Idle /\ lastCall'.op = "upload" /\ FileAt(lastCall'.path).exists) =>
         LET f         == FileAt(lastCall'.path)
             supported == Lower(PathSuffix(f.path)) \in {".pdf", ".docx", ".txt", ".md"}
             fits      == f.size <= 50 * 1024 * 1024
             blank     == Strip(f.text) = ""
         IN  /\ ~supported => lastCall'.outcome = "UnsupportedFormat"
             /\ supported /\ ~fits => lastCall'.outcome = "FileTooLarge"
             /\ supported /\ fits /\ blank /\ lastCall'.fault # "extract"
                  => lastCall'.outcome = "EmptyDocument"
             /\ lastCall'.outcome \in {"UnsupportedFormat", "FileTooLarge", "EmptyDocument"}
                  => StoreUnchanged
      ]_vars

\* a blank file was rejected while the store held a document
C5_Witness ==
    /\ lastCall.op = "upload"
    /\ lastCall.outcome = "EmptyDocument"
    /\ documents_metadata # <<>>

\* a removal that delete_document(id, fault) reaches raises
RemovalRaises(id, fault) ==
    LET meta == DocOf(documents_metadata, id)
    IN  \/ fault = "unlink" /\ meta.stored_filename \in stored_files
        \/ fault = "rmtree" /\ meta.vectorstore_path \in DOMAIN vectorstores

\* C6, as claimed: delete on a known doc_id returns true and the document is
\* then absent from list() and get(); delete on an unknown doc_id returns
\* false and leaves list() unchanged.
C6_DeleteKnownReturnsTrue ==
    [][(lastCall = Idle /\ lastCall'.op = "delete") =>
         \A id \in {lastCall'.doc_id} :
             IF HasDoc(documents_metadata, id)
             THEN /\ lastCall'.result = TRUE
                  /\ ~HasDoc(list_documents', id)
                  /\ get_document(id)' = NoRecord
             ELSE /\ lastCall'.result = FALSE
                  /\ list_documents' = list_documents
      ]_vars

\* C6, amended: delete on a known doc_id returns true when no physical
\* removal raises, and the document is then absent from list() and get();
\* it returns false when a removal raises; delete on an unknown doc_id
\* returns false and leaves list() unchanged.
C6_DeleteAmended ==
    [][(lastCall = Idle /\ lastCall'.op = "delete") =>
         \A id \in {lastCall'.doc_id} :
             IF HasDoc(documents_metadata, id)
             THEN IF RemovalRaises(id, lastCall'.fault)
                  THEN lastCall'.result = FALSE
                  ELSE /\ lastCall'.result = TRUE
                       /\ ~HasDoc(list_documents', id)
                       /\ get_document(id)' = NoRecord
             ELSE /\ lastCall'.result = FALSE
                  /\ list_documents' = list_documents
      ]_vars

\* a delete returned true while another document stayed in the store
C6_Witness ==
    /\ lastCall.op = "delete"
    /\ lastCall.result = TRUE
    /\ get_document(lastCall.doc_id) = NoRecord
    /\ documents_metadata # <<>>

\* C7: when a physical removal inside delete raises, the record is still
\* present afterwards; the record goes only once the stored file and the
\* index are gone.
C7_RecordKeptOnFailure ==
    [][(lastCall = Idle /\ lastCall'.op = "delete"
          /\ HasDoc(documents_metadata, lastCall'.doc_id)) =>
         LET id   == lastCall'.doc_id
             meta == DocOf(documents_metadata, id)
         IN  /\ RemovalRaises(id, lastCall'.fault) =>
                   /\ HasDoc(documents_metadata', id)
                   /\ DocOf(documents_metadata', id) = meta
             /\ ~HasDoc(documents_metadata', id) =>
                   /\ meta.stored_filename \notin stored_files'
                   /\ meta.vectorstore_path \notin DOMAIN vectorstores'
      ]_vars

\* the stored file was removed, the index removal raised, the record stays
C7_Witness ==
    /\ lastCall.op = "delete"
    /\ lastCall.fault = "rmtree"
    /\ lastCall.raised
    /\ HasDoc(documents_metadata, lastCall.doc_id)
    /\ DocOf(documents_metadata, lastCall.doc_id).stored_filename \notin stored_files

\* C8: when doc_ids is provided, whatever sequence it is, every result has
\* a doc_id that is an element of doc_ids.
C8_SearchRestrictedToDocIds ==
    (lastCall.op = "search" /\ lastCall.given) =>
        \A i \in 1..Len(lastCall.result) :
            lastCall.result[i].doc_id \in Range(lastCall.doc_ids)

CountIn(s, x) == Cardinality({i \in 1..Len(s) : s[i] = x})

\* the per-document results of the target documents of the last search
MergedResults ==
    Gather(TargetDocs(lastCall.given, lastCall.doc_ids), lastCall.query,
           lastCall.k, lastCall.broken)

\* C9: search returns at most k results, in ascending order of score, and
\* they are the k lowest-scored entries of the per-document results of the
\* target documents.
C9_SearchTopK ==
    lastCall.op = "search" =>
        LET res == lastCall.result
            all == MergedResults
        IN  /\ Len(res) <= lastCall.k
            /\ Len(res) = Min(lastCall.k, Len(all))
            /\ \A i \in 1..(Len(res) - 1) :
                   res[i].similarity_score <= res[i + 1].similarity_score
            /\ \A i \in 1..Len(res) : CountIn(res, res[i]) <= CountIn(all, res[i])
            /\ \A j \in 1..Len(all) :
                   CountIn(res, all[j]) < CountIn(all, all[j]) =>
                       \A i \in 1..Len(res) :
                           res[i].similarity_score <= all[j].similarity_score

\* a search over two documents left out hits of both and kept a hit of each
C9_Witness ==
    /\ lastCall.op = "search"
    /\ lastCall.k > 0
    /\ Len(MergedResults) > lastCall.k
    /\ \E i, j \in 1..Len(lastCall.result) :
           lastCall.result[i].doc_id # lastCall.result[j].doc_id
    /\ \E i \in 1..(Len(MergedResults) - 1) :
           MergedResults[i].similarity_score > MergedResults[i + 1].similarity_score

(***************************************************************************)
(* Properties of the conversation histories.                               *)
(***************************************************************************)
\* C10: each history holds at most 5 entries, and they are the 5 most
\* recent exchanges recorded, in their order; this holds for the
\* dispatcher's history and for the document integration's.
C10_HistoryKeepsLastFive ==
    /\ Len(conversation_history) <= 5
    /\ conversation_history = LastN(recorded.assistant, 5)
    /\ Len(conversation_context.conversation_history) <= 5
    /\ conversation_context.conversation_history = LastN(recorded.document, 5)

\* a sixth exchange was recorded and the oldest one evicted
C10_Witness ==
    /\ Len(recorded.assistant) > 5
    /\ Len(conversation_history) = 5
    /\ conversation_history[1] # recorded.assistant[1]

\* C18: in every reachable state of the document store each record's
\* chunk count (num_chunks) equals the number of chunks in that document's
\* index and no two records share a doc_id; an upload whose computed doc_id
\* exists already adds no record and is not an error.
C18_ChunkCountAndUniqueIds ==
    /\ [](/\ \A i \in 1..Len(documents_metadata) :
              LET r == documents_metadata[i]
              IN  /\ r.vectorstore_path \in DOMAIN vectorstores
                  /\ r.num_chunks = Len(vectorstores[r.vectorstore_path])
          /\ \A i, j \in 1..Len(documents_metadata) :
              documents_metadata[i].doc_id = documents_metadata[j].doc_id => i = j)
    /\ [][(lastCall = Idle /\ lastCall'.op = "upload"
            /\ lastCall'.outcome \in {"ok", "IndexBuildError"}) =>
             \A id \in {GenerateDocId(PathName(lastCall'.path),
                                      FileAt(lastCall'.path).text)} :
                 HasDoc(documents_metadata, id) =>
                     /\ lastCall'.outcome = "ok"
                     /\ documents_metadata' = documents_metadata
          ]_vars

\* two documents with different chunk counts are stored, and a file whose
\* doc_id collides with the stored report's was uploaded without effect
C18_Witness ==
    /\ Len(documents_metadata) = 2
    /\ \E i, j \in 1..2 : documents_metadata[i].num_chunks # documents_metadata[j].num_chunks
    /\ lastCall.op = "upload"
    /\ lastCall.path = "inbox/report.txt"
    /\ lastCall.outcome = "ok"
    /\ vectorstores[lastCall.result.vectorstore_path] = SplitText(TextReport)

(***************************************************************************)
(* The agentic workflow.                                                   *)
(***************************************************************************)
\* the messages of the invocation right after its first step
AfterRoute == wf.node \in {"tools", "END"} /\ wf.steps = 1

\* C16: Route decides by keyword presence in the lower-cased query: 'list',
\* 'show' or 'documents' lead to ListDocuments; otherwise 'search', 'find',
\* 'about' or 'what' lead to Search with the lower-cased query as the term;
\* otherwise the answer is direct.  Keywords of both sets lead to
\* ListDocuments.
C16_RouteByKeywords ==
    AfterRoute =>
        \A lq \in {Lower(ActualQuery(wf.query))} :
            \A m \in {wf.messages[1]} :
                IF Contains(lq, "list") \/ Contains(lq, "show") \/ Contains(lq, "documents")
                THEN m.call = "list_available_documents" /\ wf.node = "tools"
                ELSE IF \/ Contains(lq, "search") \/ Contains(lq, "find")
                        \/ Contains(lq, "about") \/ Contains(lq, "what")
                THEN m.call = "search_documents" /\ m.arg = lq /\ wf.node = "tools"
                ELSE m.call = "" /\ m.type = "ai" /\ wf.node = "END"

C16_Witness ==
    /\ AfterRoute
    /\ wf.query = "show what we have"
    /\ wf.messages[1].call = "list_available_documents"

\* C15: an invocation routed to ListDocuments makes the list and is done:
\* no search, no rewrite and no generation step follows, and the text
\* returned is the formatted list.
C15_ListGoesToDone ==
    (wf.node # "idle" /\ Len(wf.events) >= 2 /\ wf.events[2] = "list") =>
        /\ wf.events = <<"route", "list">>
        /\ wf.node \in {"END", "returned"}
        /\ wf.node = "returned" => wf.result = list_available_documents

\* a step of the graph taken from node n
StepFrom(n) == wf.node = n /\ wf'.node # "returned" /\ wf'.steps = wf.steps + 1

\* C17: after a search with no result the workflow rewrites the query,
\* after a search with a result it generates the answer and is done; the
\* answer is never generated after a search with no result, and a rewritten
\* query is always searched.
C17_SearchThenGradeOrRewrite ==
    [][/\ (StepFrom("tools") /\ wf'.events[Len(wf'.events)] = "search_empty")
            => wf'.node = "rewrite_query"
       /\ (StepFrom("tools") /\ wf'.events[Len(wf'.events)] = "search_hit")
            => wf'.node = "generate_answer"
       /\ StepFrom("generate_answer") => wf'.node = "END"
       /\ StepFrom("rewrite_query")
            => wf'.node = "tools" /\ wf'.messages[1].call = "search_documents"]_vars

ProcessStep ==
    dispatch'.op = "process_query" /\ dispatch' # dispatch /\ ~dispatch'.raised

\* C11: a query is overridden to document_rag / agentic_query only when
\* follow-up detection is true and a last document is set in the
\* conversation context; with no last document (none discussed, or the
\* context cleared) follow-up detection is false and nothing is overridden.
C11_OverrideNeedsDocument ==
    [][ProcessStep =>
          /\ dispatch'.overridden =>
                 /\ dispatch'.follow_up
                 /\ conversation_context.last_discussed_doc_id # ""
          /\ conversation_context.last_discussed_doc_id = "" =>
                 /\ ~dispatch'.follow_up
                 /\ ~dispatch'.overridden]_vars

\* C12: after 'summarize document X' for a known document X, a next query
\* that names no document is detected as a follow-up, is handled as
\* document_rag / agentic_query, and the query handed to the workflow
\* carries the annotation naming X.
C12_FollowUpCarriesDocument ==
    [][\A X \in DocIdInputs :
          (/\ ProcessStep
           /\ dispatch.op = "process_query"
           /\ ~dispatch.raised
           /\ dispatch.query = "summarize document " \o X
           /\ HasDoc(documents_metadata, X)
           /\ "document_rag" \in authenticated
           /\ dispatch'.query \in {"what are the key findings?", "what about it?"})
          => /\ dispatch'.follow_up
             /\ dispatch'.service = "document_rag"
             /\ dispatch'.action = "agentic_query"
             /\ Contains(dispatch'.workflow_query, "(ID: " \o X \o ")")]_vars

\* C14: process_query never lets an exception out: when its body raises it
\* returns the generic error text and leaves the assistant as it was, and
\* when a handler's own body raises the handler's error text is returned;
\* the next query is processed as usual.
C14_NoExceptionEscapes ==
    /\ [](dispatch.op = "process_query" =>
            /\ ~dispatch.propagated
            /\ dispatch.raised =>
                 dispatch.response =
                     "(x) **Error**: I encountered an error processing your request. Please try again."
            /\ (~dispatch.raised /\ dispatch.action = "summarize_document"
                  /\ dispatch.calls # <<>>) =>
                 dispatch.response =
                     "(x) **Error**: An error occurred while processing your document request.")
    /\ [][(dispatch'.op = "process_query" /\ dispatch' # dispatch /\ dispatch'.raised)
            => UNCHANGED <<chatVars, storeVars, authenticated>>]_vars

\* a query answered by the workflow right after a query whose parsing raised
C14_Witness ==
    /\ dispatch.op = "process_query"
    /\ ~dispatch.raised
    /\ dispatch.after_error
    /\ dispatch.calls = <<"workflow">>
    /\ dispatch.response = "Revenue rose in the quarter."

\* the intents that lack the parameter their action requires
LacksRequired(intent) ==
    LET p   == intent.parameters
        No(name) == name \notin DOMAIN p \/ p[name] = ""
    IN  \/ intent.action \in {"get_emails_from_sender", "summarize_emails_from_sender"}
             /\ No("sender")
        \/ intent.action \in {"search_emails", "search_files"} /\ No("search_term")
        \/ intent.action = "upload_document" /\ No("file_path")
        \/ intent.action \in {"delete_document", "summarize_document", "analyze_document",
                              "extract_information"} /\ No("doc_id")
        \/ intent.action \in {"search_documents", "agentic_query"} /\ No("query")
        \/ intent.action = "extract_information" /\ No("info_type")
        \/ intent.action = "compare_documents"
             /\ ("doc_ids" \notin DOMAIN p \/ Len(p.doc_ids) < 2)

HandledLacking == dispatch.op = "handle" /\ LacksRequired(dispatch.intent)

\* C19 as stated: a handler given an intent that lacks a required parameter
\* returns a plain-text prompt asking for it, raises nothing and calls
\* neither the service adapter nor the document workflow.
C19_PromptForMissingParameter ==
    HandledLacking =>
        /\ StartsWith(dispatch.response, "Please ")
        /\ ~dispatch.raised
        /\ dispatch.calls = <<>>

\* C19 amended: that holds when the handler's integration is available and
\* authenticated; otherwise the handler returns its not-available error
\* text, also without raising and without calling anything.
C19_PromptWhenAuthenticated ==
    HandledLacking =>
        /\ ~dispatch.raised
        /\ dispatch.calls = <<>>
        /\ IF IntegrationOf(dispatch.intent.service) \in authenticated
           THEN StartsWith(dispatch.response, "Please ")
           ELSE /\ StartsWith(dispatch.response, "(x) **")
                /\ Contains(dispatch.response,
                            "integration not available or not authenticated.")

C19_Witness ==
    /\ dispatch.op = "handle"
    /\ dispatch.intent.action = "compare_documents"
    /\ "document_rag" \in authenticated
    /\ dispatch.response = "Please provide at least 2 document IDs to compare."

\* an operation of the integration called with a doc_id the store does not
\* know (compare: with two doc_ids or more, one of them unknown)
UnknownDocumentCall ==
    \/ /\ dispatch.op \in {"summarize_document", "analyze_document",
                            "extract_information"}
       /\ ~dispatch.raised
       /\ ~HasDoc(documents_metadata, dispatch.arg)
    \/ /\ dispatch.op = "compare_documents"
       /\ ~dispatch.raised
       /\ Len(dispatch.arg) >= 2
       /\ \E i \in 1..Len(dispatch.arg) : ~HasDoc(documents_metadata, dispatch.arg[i])

FollowUpWords ==
    {"what", "how", "why", "when", "where", "who", "this", "that", "it", "here",
     "there", "tell me", "explain", "describe", "show me", "more", "details", "about"}

\* C21: with a prior context, follow-up detection is true exactly when the
\* lower-cased query contains one of the fixed follow-up words and the query
\* has at most 8 words, or the intent's confidence is below 0.7, or the
\* intent's service is general.
C21_FollowUpExactly ==
    (dispatch.op = "is_follow_up" /\ current_context.last_service # "") =>
        \A lowered \in {Lower(dispatch.query)} :
            dispatch.result <=>
                /\ \E word \in FollowUpWords : Contains(lowered, word)
                /\ \/ WordCount(dispatch.query) <= 8
                   \/ 10 * dispatch.intent.confidence.num
                        < 7 * dispatch.intent.confidence.den
                   \/ dispatch.intent.service = "general"

\* a long query with a follow-up word, detected because of its confidence
C21_Witness ==
    /\ dispatch.op = "is_follow_up"
    /\ current_context.last_service = "gmail"
    /\ WordCount(dispatch.query) > 8
    /\ dispatch.intent.service = "gmail"
    /\ dispatch.intent.confidence = [num |-> 69, den |-> 100]
    /\ dispatch.result


\* the ambiguous referential terms
AmbiguousTerms ==
    {"this", "that", "it", "the document", "this document", "that document"}

\* a query dispatched by process_query and handed to the workflow
WorkflowStepOfQuery == ProcessStep /\ dispatch'.calls = <<"workflow">>

\* C22: a query with an ambiguous term, annotated with the last document
\* (whatever its display name and id), reaches the workflow with the
\* annotation in front, and the workflow's question is exactly the trimmed
\* query; a query without such a term, or with no last document, is handed
\* over unchanged.
C22_AnnotationRoundTrip ==
    [][WorkflowStepOfQuery =>
          \A q \in {dispatch'.query}, handed \in {dispatch'.workflow_query} :
             IF /\ \E term \in AmbiguousTerms : Contains(Lower(q), term)
                /\ conversation_context.last_discussed_doc_id # ""
             THEN /\ handed # q
                  /\ StartsWith(handed, "[Context:")
                  /\ ActualQuery(handed) = Strip(q)
             ELSE handed = q]_vars


\* an agentic query of the integration has returned
AgenticReturned == dispatch.op = "agentic_query" /\ ~dispatch.raised

\* the known documents whose id the response text carries
Carried(response) ==
    {documents_metadata[i].doc_id : i \in {j \in 1..Len(documents_metadata) :
                                            Contains(response, documents_metadata[j].doc_id)}}

AnnotationNamesKnown ==
    (AgenticReturned /\ StartsWith(dispatch.workflow_query, "[Context:")) =>
        \E i \in 1..Len(documents_metadata) :
            Contains(dispatch.workflow_query,
                     "(ID: " \o documents_metadata[i].doc_id \o ")")

\* C27: whatever uploads, summaries, agentic queries, deletions and
\* clearings have happened, the last document of the conversation context
\* is unset or is a document the store holds, and no annotation names a
\* document that is not in the store.
C27_LastDocumentIsPresent ==
    /\ conversation_context.last_discussed_doc_id # "" =>
           HasDoc(documents_metadata, conversation_context.last_discussed_doc_id)
    /\ AnnotationNamesKnown


(***************************************************************************)
(* Failures: of an index during a search, of the generation client, of an  *)
(* upload or a deletion part-way.                                          *)
(***************************************************************************)
\* C24: in a search, a known target document whose index fails to load or
\* to answer contributes nothing; the call returns a list, which is what
\* the search over the other target documents alone returns.
C24_BrokenIndexSkipped ==
    lastCall.op = "search" =>
        \A res \in {lastCall.result},
           targets \in {TargetDocs(lastCall.given, lastCall.doc_ids)} :
           \A others \in {SelectSeq(targets, LAMBDA d : d \notin lastCall.broken)} :
              /\ DOMAIN res = 1..Len(res)
              /\ \A i \in 1..Len(res) : res[i].doc_id \notin lastCall.broken
              /\ res = IF others = <<>> THEN <<>>
                       ELSE search_documents(lastCall.query, TRUE, others, lastCall.k, {})

\* two documents searched, the index of the first broken, hits of the second
C24_Witness ==
    /\ lastCall.op = "search"
    /\ ~lastCall.given
    /\ Len(documents_metadata) = 2
    /\ lastCall.broken = {documents_metadata[1].doc_id}
    /\ lastCall.result # <<>>
    /\ \A i \in 1..Len(lastCall.result) :
           lastCall.result[i].doc_id = documents_metadata[2].doc_id


\* the texts the generation client returns for a failed request
FailureTexts ==
    {"Response ready - please continue.",
     "I'm having trouble connecting to the local AI model.",
     "I apologize, but I couldn't generate a response.",
     "An unexpected error occurred while generating the response."}

\* a generation call of the running invocation has failed
GenerationFailed == wf.node # "idle" /\ wf.failed

C26_PromptHoldsOriginalQuestion ==
    [][/\ (wf.node = "generate_answer" /\ wf'.node = "END")
            => /\ wf'.prompt.question = wf.query
               /\ wf.messages[Len(wf.messages)].name = "search_documents"
               /\ wf'.prompt.context = wf.messages[Len(wf.messages)].content
       /\ (wf.node = "rewrite_query" /\ wf'.node = "tools")
            => wf'.prompt.question = wf.query]_vars


\* C28: after any uploads and deletions, also those that fail part-way, the
\* documents with a stored file, those with a persisted index and those
\* with a record are the same documents.
C28_FileIndexRecordAgree ==
    /\ stored_files =
           {documents_metadata[i].stored_filename : i \in 1..Len(documents_metadata)}
    /\ DOMAIN vectorstores =
           {documents_metadata[i].vectorstore_path : i \in 1..Len(documents_metadata)}

(***************************************************************************)
(* The override to the document workflow over several queries.             *)
(***************************************************************************)
\* a call of process_query that completed: it was dispatched and recorded
CompletedStep == Len(recorded'.assistant) = Len(recorded.assistant) + 1

\* the service the most recently completed query was dispatched to ("" when none)
LastDispatched(history) ==
    IF history = <<>> THEN "" ELSE history[Len(history)].intent.service

\* C29: a query is overridden to the document workflow only if the most
\* recently completed query was dispatched to document_rag; an overridden
\* query is recorded as a document_rag query, so a follow-up right after it
\* is overridden too; once a completed query was dispatched to another
\* service no query is overridden, and a query is dispatched to document_rag
\* only when it parses to document_rag by itself.
C29_OverrideArmedByLastDispatch ==
    [][CompletedStep =>
          /\ dispatch'.overridden =>
                 /\ LastDispatched(recorded.assistant) = "document_rag"
                 /\ LastDispatched(recorded'.assistant) = "document_rag"
          /\ (/\ dispatch.op = "process_query"
              /\ ~dispatch.raised
              /\ dispatch.overridden
              /\ dispatch'.follow_up)
             => dispatch'.overridden
          /\ LastDispatched(recorded.assistant) # "document_rag" =>
                 /\ ~dispatch'.overridden
                 /\ LastDispatched(recorded'.assistant) = "document_rag"
                        => parse(dispatch'.query, FirstNow).service = "document_rag"]_vars

\* two follow-ups in a row were overridden after a document query
C29_Witness ==
    /\ Len(recorded.assistant) = 3
    /\ dispatch.op = "process_query"
    /\ ~dispatch.raised
    /\ dispatch.overridden
    /\ \A i \in {2, 3} :
          /\ recorded.assistant[i].query = "what about it?"
          /\ recorded.assistant[i].intent.service = "document_rag"
          /\ recorded.assistant[i].intent.action = "agentic_query"

(***************************************************************************)
(* Properties of the adapter cache.                                        *)
(***************************************************************************)

\* the seconds that passed between the calls at positions from and to
RECURSIVE ElapsedBetween(_, _, _)
ElapsedBetween(trace, from, to) ==
    IF from >= to THEN 0
    ELSE (IF trace[from].op = "elapse" THEN trace[from].seconds ELSE 0)
         + ElapsedBetween(trace, from + 1, to)

\* the positions before i at which _set_cache was called with this key
SetsBefore(trace, i, key) ==
    {j \in 1..(i - 1) : trace[j].op = "set" /\ trace[j].key = key}

LatestSet(trace, i, key) ==
    CHOOSE j \in SetsBefore(trace, i, key) : \A k \in SetsBefore(trace, i, key) : k <= j

\* the key was cleared, by itself or with every other key, between positions j and i
ClearedBetween(trace, j, i, key) ==
    \E k \in (j + 1)..(i - 1) :
        /\ trace[k].op = "clear"
        /\ trace[k].key = key \/ ~Truthy(trace[k].key)

\* the call at position i finds data stored less than cache_duration seconds ago
\* and not cleared since
FreshAt(trace, i) ==
    /\ SetsBefore(trace, i, trace[i].key) # {}
    /\ \A j \in {LatestSet(trace, i, trace[i].key)} :
        /\ ~ClearedBetween(trace, j, i, trace[i].key)
        /\ ElapsedBetween(trace, j, i) < CacheDuration

\* C30: _get_cached(key) returns the data of the latest _set_cache(key, ...) when that
\* call was made less than cache_duration seconds earlier and the key was not cleared
\* since, and None for an expired, cleared or never-set key; after _clear_cache() with
\* no key every key returns None until it is set again.
C30_CacheNeverStale ==
    \A i \in 1..Len(cacheTrace) :
        cacheTrace[i].op = "get" =>
            /\ cacheTrace[i].result =
                   IF FreshAt(cacheTrace, i)
                   THEN cacheTrace[LatestSet(cacheTrace, i, cacheTrace[i].key)].data
                   ELSE PyNone
            /\ (\E k \in 1..(i - 1) :
                    /\ cacheTrace[k].op = "clear"
                    /\ cacheTrace[k].key = PyNone
                    /\ SetsBefore(cacheTrace, i, cacheTrace[i].key) \cap (k + 1)..i = {})
               => cacheTrace[i].result = PyNone

\* the same key is served one second before its expiry and refused at its expiry
C30_Witness ==
    \E i \in 1..Len(cacheTrace), k \in 1..Len(cacheTrace) :
        /\ i < k
        /\ cacheTrace[i].op = "get" /\ cacheTrace[k].op = "get"
        /\ cacheTrace[i].key = cacheTrace[k].key
        /\ cacheTrace[i].result # PyNone
        /\ cacheTrace[k].result = PyNone
        /\ \A j \in (i + 1)..(k - 1) : cacheTrace[j].op = "elapse"
        /\ ElapsedBetween(cacheTrace, LatestSet(cacheTrace, i, cacheTrace[i].key), k)
               = CacheDuration

====
